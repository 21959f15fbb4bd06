------------------------------ MODULE MCSwarms ------------------------------
EXTENDS SwarmExec

CONSTANTS e1, e2, d1, w1, w2, w3, p1, p2, p3

\* Three perspectives, each with a provider of its own.
Sent == (w1 :> {p1}) @@ (w2 :> {p2}) @@ (w3 :> {p3})
Kin == (p1 :> "llama") @@ (p2 :> "gemini") @@ (p3 :> "qwen")
=============================================================================
