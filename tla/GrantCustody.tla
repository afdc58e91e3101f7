---------------------------- MODULE GrantCustody ----------------------------
(***************************************************************************)
(* What the engine promises about Blink's rotating refresh grant, whatever *)
(* the number of requests, retries and sign-ins at work: one presentation  *)
(* of the grant at a time, always of the grant in memory; nothing replaces *)
(* or seals a grant while a presentation is outstanding; the file only     *)
(* ever receives the grant in memory or the one of a finished sign-in.     *)
(***************************************************************************)
EXTENDS Naturals

CONSTANTS Presenters, Grants

VARIABLES
    held,     \* the grant in memory, 0 when none
    sealed,   \* the grant in the file, 0 when none
    signIn,   \* the grant of a sign-in not yet adopted, 0 when none
    offered   \* <<presenter, grant>> of each unanswered presentation

vars == <<held, sealed, signIn, offered>>

MaybeGrants == Grants \cup {0}

Init ==
    /\ held = 0
    /\ sealed \in MaybeGrants
    /\ signIn = 0
    /\ offered = {}

SignIn ==
    /\ signIn' \in MaybeGrants
    /\ UNCHANGED <<held, sealed, offered>>

Seal ==
    /\ offered = {}
    /\ sealed' \in {held, signIn} \ {0}
    /\ signIn' \in {signIn, 0}
    /\ UNCHANGED <<held, offered>>

(* Bootstrap, a finished sign-in, an import or its undoing. *)
Replace ==
    /\ offered = {}
    /\ held' \in MaybeGrants
    /\ signIn' \in {signIn, 0}
    /\ UNCHANGED <<sealed, offered>>

Offer(p) ==
    /\ offered = {}
    /\ held # 0
    /\ offered' = {<<p, held>>}
    /\ UNCHANGED <<held, sealed, signIn>>

(* Blink rotated the grant: the new one is adopted, or its loss accepted. *)
Settle(p) ==
    /\ offered = {<<p, held>>}
    /\ offered' = {}
    /\ held' \in MaybeGrants
    /\ UNCHANGED <<sealed, signIn>>

Restart ==
    /\ held' = 0 /\ signIn' = 0 /\ offered' = {}
    /\ UNCHANGED sealed

Next ==
    \/ SignIn \/ Seal \/ Replace \/ Restart
    \/ \E p \in Presenters : Offer(p) \/ Settle(p)

Spec == Init /\ [][Next]_vars
=============================================================================
