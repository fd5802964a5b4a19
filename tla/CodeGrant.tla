------------------------------ MODULE CodeGrant ------------------------------
(***************************************************************************)
(* What an authorization code promises, without pages, clock, map or       *)
(* requests: it is offered to one flow once, and from then on is worth at  *)
(* most one token, for that flow; once it is spent or void it stays so.    *)
(* Nothing is promised of a code that is claimed twice at a time.          *)
(* Module OAuth implements it.                                             *)
(***************************************************************************)
EXTENDS Naturals

CONSTANTS Flows, Codes,
          None        \* not offered to any flow

VARIABLES status,     \* status[c]: unborn, offered, spent, void or contested
          owner,      \* owner[c]: the flow that code c is for
          tokens,     \* tokens[c]: how many tokens were given for it
          bearer      \* bearer[c]: the flow that was given one

grantVars == <<status, owner, tokens, bearer>>

Init ==
  /\ status = [c \in Codes |-> "unborn"]
  /\ owner = [c \in Codes |-> None]
  /\ tokens = [c \in Codes |-> 0]
  /\ bearer = [c \in Codes |-> None]

\* The owner of the server approves an attempt.
Offer(c, f) ==
  /\ status[c] = "unborn"
  /\ status' = [status EXCEPT ![c] = "offered"]
  /\ owner' = [owner EXCEPT ![c] = f]
  /\ UNCHANGED <<tokens, bearer>>

\* The code is exchanged.
Redeem(c) ==
  /\ status[c] = "offered"
  /\ status' = [status EXCEPT ![c] = "spent"]
  /\ tokens' = [tokens EXCEPT ![c] = 1]
  /\ bearer' = [bearer EXCEPT ![c] = owner[c]]
  /\ UNCHANGED owner

\* Codes are lost: refused, or forgotten by the server.
Void(lost) ==
  /\ \A c \in lost : status[c] = "offered"
  /\ status' = [c \in Codes |-> IF c \in lost THEN "void" ELSE status[c]]
  /\ UNCHANGED <<owner, tokens, bearer>>

\* A second claim begins while one is in progress.
Contest(c) ==
  /\ status[c] = "offered"
  /\ status' = [status EXCEPT ![c] = "contested"]
  /\ UNCHANGED <<owner, tokens, bearer>>

Next ==
  \/ \E c \in Codes : Redeem(c) \/ Contest(c) \/ \E f \in Flows : Offer(c, f)
  \/ \E lost \in SUBSET Codes : Void(lost)

Spec == Init /\ [][Next]_grantVars

=============================================================================
