------------------------------- MODULE PlanLog -------------------------------
(***************************************************************************)
(* What a planning session promises its client, without files, calls or    *)
(* crashes: a log of phase artifacts that is filled in order and never     *)
(* rewritten, closed by one master plan.  Module Workflow implements it    *)
(* where one handler at a time works on a session.                         *)
(***************************************************************************)
EXTENDS Naturals

CONSTANTS N,          \* number of phases of a session
          Sessions,   \* session ids
          Contents,   \* what a client may submit as an artifact or a plan
          NoContent   \* nothing accepted yet

VARIABLES log,        \* log[s][i]: the artifact accepted for phase i
          started,    \* the sessions that exist
          final       \* final[s]: the master plan of a closed session

logVars == <<log, started, final>>

\* Exactly the phases before i are in the log of s.
NextToAccept(s, i) == \A j \in 1..N : log[s][j] # NoContent <=> j < i

Full(s) == \A j \in 1..N : log[s][j] # NoContent

Empty == [i \in 1..N |-> NoContent]

\* A session may have been carried to any point by an earlier server process.
Init ==
  /\ started \in SUBSET Sessions
  /\ log \in [Sessions -> [1..N -> Contents \cup {NoContent}]]
  /\ final \in [Sessions -> Contents \cup {NoContent}]
  /\ \A s \in Sessions :
       /\ s \notin started => log[s] = Empty
       /\ final[s] # NoContent => Full(s)
       /\ \E i \in 1..(N + 1) : NextToAccept(s, i)

\* Creates session s, empty; an id that is already in use is emptied.
Open(s) ==
  /\ started' = started \cup {s}
  /\ log' = [log EXCEPT ![s] = Empty]
  /\ final' = [final EXCEPT ![s] = NoContent]

\* Accepts x as the artifact of phase i, the next one in order.
Accept(s, i, x) ==
  /\ s \in started
  /\ NextToAccept(s, i)
  /\ log' = [log EXCEPT ![s] = [@ EXCEPT ![i] = x]]
  /\ UNCHANGED <<started, final>>

\* Closes a session whose phases are all accepted.
Close(s, x) ==
  /\ s \in started
  /\ Full(s)
  /\ final[s] = NoContent
  /\ final' = [final EXCEPT ![s] = x]
  /\ UNCHANGED <<log, started>>

Next ==
  \E s \in Sessions :
    \/ Open(s)
    \/ \E x \in Contents : Close(s, x) \/ \E i \in 1..N : Accept(s, i, x)

Spec == Init /\ [][Next]_logVars

=============================================================================
