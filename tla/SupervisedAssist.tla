-------------------------- MODULE SupervisedAssist --------------------------
(***************************************************************************)
(* Supervised browser assist (src/hands/{supervised-assist,                *)
(* assist-approval-port,assist-contract}.ts): the CEO approves an answer   *)
(* pack at the terminal, and a session fills its fields into a page.       *)
(*                                                                         *)
(* A pack is read from a file, by then tampered with perhaps; it expires   *)
(* while the CEO thinks or while it is filled.  The page is the world's:   *)
(* a session looks at a field, awaits, and fills it.  The origin, the form *)
(* and the plan a pack is validated against are the pack's own             *)
(* (src/cli.ts hands them over), so that those checks never fail here.     *)
(***************************************************************************)
EXTENDS Naturals, Sequences

CONSTANTS
    Session,
    Field,
    Capability,     \* approvals given
    Pack,           \* records [fields : Seq(Field), intact : BOOLEAN]; a pack has fields
    Volatile        \* may the page change between the look and the fill, or the look fail?

ASSUME AssistAssumption ==
    /\ Pack \subseteq [fields : Seq(Field) \ {<<>>}, intact : BOOLEAN]
    /\ Volatile \in BOOLEAN

VARIABLES
    page,       \* per field: what the page has under its label
    expired,    \* the packs whose time is over
    approved,   \* per capability minted: the pack it was minted for
    consumed,   \* the capabilities used
    session,    \* per session: where it is, its pack and capability
    filled      \* history: per session, the fields filled and what they were

assistVars == <<page, expired, approved, consumed, session, filled>>

NotMinted == [none |-> TRUE]
NoSession == [pc |-> "off"]

SessionState ==
    {NoSession}
    \cup [pc : {"look", "fill", "done"}, pack : Pack, capability : Capability,
          at : Nat, valid : BOOLEAN]

AssistTypeOK ==
    /\ page \in [Field -> {"plain", "sensitive", "absent"}]
    /\ expired \subseteq Pack
    /\ approved \in [Capability -> Pack \cup {NotMinted}]
    /\ consumed \subseteq Capability
    /\ session \in [Session -> SessionState]
    /\ filled \in [Session -> SUBSET (Field \X {"plain", "sensitive"})]

AssistInit ==
    /\ page \in [Field -> {"plain", "sensitive", "absent"}]
    /\ expired = {}
    /\ approved = [c \in Capability |-> NotMinted]
    /\ consumed = {}
    /\ session = [s \in Session |-> NoSession]
    /\ filled = [s \in Session |-> {}]

\* requestApproval: the CEO types the pack's short hash in time, which mints
\* a new capability; nothing comes of a wrong answer or of a minute's silence.
RequestApproval(c, pack) ==
    /\ approved[c] = NotMinted
    /\ approved' = [approved EXCEPT ![c] = pack]
    /\ UNCHANGED <<page, expired, consumed, session, filled>>

\* validatePack, with a context that is the pack's own.
Valid(pack) == pack \notin expired /\ pack.intact

\* Mutant: consumeCapability marks nothing.
NotConsumed(c) == consumed' = consumed

ConsumeCapability(c) == consumed' = consumed \cup {c}

\* The gates of runSupervisedAssist: the capability is minted and unused, is
\* used up now, and then the pack is validated; a gate that fails halts.
RunSupervisedAssist(s, c) ==
    LET pack == approved[c] IN
    /\ session[s] = NoSession
    /\ pack # NotMinted
    /\ IF c \in consumed
       THEN /\ UNCHANGED consumed
            /\ session' = [session EXCEPT ![s] = [pc |-> "done", pack |-> pack, capability |-> c,
                                                  at |-> 1, valid |-> FALSE]]
       ELSE /\ ConsumeCapability(c)
            /\ session' = [session EXCEPT ![s] = [pc |-> IF Valid(pack) THEN "look" ELSE "done",
                                                  pack |-> pack, capability |-> c, at |-> 1,
                                                  valid |-> pack \notin expired /\ pack.intact]]
    /\ UNCHANGED <<page, expired, approved, filled>>

FieldOf(s) == session[s].pack.fields[session[s].at]

Denied(f) == page[f] = "sensitive"

\* isFieldDenied: a credential-like field halts the session; a look that
\* fails lets the fill decide.
LookAtField(s) ==
    /\ session[s].pc = "look"
    /\ \E fails \in {FALSE, Volatile} :
         session' = [session EXCEPT ![s].pc =
                       IF ~fails /\ Denied(FieldOf(s)) THEN "done" ELSE "fill"]
    /\ UNCHANGED <<page, expired, approved, consumed, filled>>

\* The fill fails when there is no such field, or the driver throws: a halt.
FillField(s) ==
    /\ session[s].pc = "fill"
    /\ \/ /\ page[FieldOf(s)] # "absent"
          /\ filled' = [filled EXCEPT ![s] = @ \cup {<<FieldOf(s), page[FieldOf(s)]>>}]
          /\ session' = [session EXCEPT
               ![s].at = @ + 1,
               ![s].pc = IF session[s].at = Len(session[s].pack.fields) THEN "done" ELSE "look"]
       \/ UNCHANGED filled /\ session' = [session EXCEPT ![s].pc = "done"]
    /\ UNCHANGED <<page, expired, approved, consumed>>

PackExpires(pack) ==
    /\ pack \notin expired
    /\ expired' = expired \cup {pack}
    /\ UNCHANGED <<page, approved, consumed, session, filled>>

PageChanges(f, kind) ==
    /\ Volatile \/ \A s \in Session : session[s].pc # "fill"
    /\ page' = [page EXCEPT ![f] = kind]
    /\ UNCHANGED <<expired, approved, consumed, session, filled>>

AssistNext ==
    \/ \E c \in Capability, pack \in Pack : RequestApproval(c, pack)
    \/ \E s \in Session :
         \/ \E c \in Capability : RunSupervisedAssist(s, c)
         \/ LookAtField(s) \/ FillField(s)
    \/ \E pack \in Pack : PackExpires(pack)
    \/ \E f \in Field, kind \in {"plain", "sensitive", "absent"} : PageChanges(f, kind)

AssistSpec == AssistInit /\ [][AssistNext]_assistVars

-----------------------------------------------------------------------------

\* One approval lets one session fill fields, whatever the sessions' order.
ApprovalUsedOnce ==
    \A s, t \in Session :
        filled[s] # {} /\ filled[t] # {} /\ session[s].capability = session[t].capability
            => s = t

\* A session fills the fields of a pack only if the pack was whole and in
\* time when the session began, however long the approval took.
FilledWasValid == \A s \in Session : filled[s] # {} => session[s].valid

\* No credential-like field is ever filled, even if the pack names it.
SensitiveNeverFilled == \A s \in Session, f \in Field : <<f, "sensitive">> \notin filled[s]

\* What is filled in was approved for this session, and may be filled in.
FillsAreApproved == ApprovalUsedOnce /\ FilledWasValid /\ SensitiveNeverFilled
=============================================================================
