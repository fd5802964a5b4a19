-------------------------------- MODULE OAuth --------------------------------
(***************************************************************************)
(* The authorization server (internal/auth): a client asks for approval,   *)
(* the owner approves the page, the client exchanges the code it gets for  *)
(* an access token.  Approve tokens and access tokens are signed and kept  *)
(* by others; an approve token signs the state parameter and the time, and *)
(* what else the approval is for comes with the form.  Codes are entries   *)
(* of a sync.Map, gone with the process.                                   *)
(* Requests run in goroutines of their own; an exchange is a Load, a       *)
(* Delete and a check, and a client may send it again.                     *)
(***************************************************************************)
EXTENDS Naturals, FiniteSets

CONSTANTS States,         \* what the state parameter of a request may be
          Flows,          \* what a code is for: each flow is a redirect URI,
                          \* a client and a PKCE verifier
          Codes,          \* what uuid.NewString may return
          Requests,       \* token requests that may be in flight at once
          None,           \* no code, flow or state, not issued
          Second,         \* ticks of the clock in a second
          ApproveWindow,  \* seconds an approve token is good for (300)
          CodeLife,       \* ticks a code is good for (CodeExpiry)
          TokenLife,      \* ticks a token is good for (TokenExpiry)
          MaxTime,        \* bound: ticks
          MaxPages,       \* bound: approval pages of a state
          MaxUses         \* bound: tokens per code that are told apart

ASSUME ClockAssumption ==
  /\ Second \in Nat \ {0} /\ MaxTime \in Nat
  /\ ApproveWindow \in Nat /\ CodeLife \in Nat /\ TokenLife \in Nat
ASSUME NoneAssumption == None \notin Codes \cup Flows \cup States
ASSUME BoundsAssumption == MaxUses \in Nat \ {0} /\ MaxPages \in Nat

VARIABLES now,    \* the server's clock
          pages,  \* pages[s]: when the approval pages of state s were made
          codes,  \* the codes in the map
          grant,  \* grant[c]: the flow of code c, the state and the time
                  \* its approve token is of, when it was approved
          req,    \* req[r]: where token request r is, and what it presents
          uses,   \* uses[c]: tokens issued for code c
          token,  \* token[c]: the last of them: for which flow, when
          shared  \* history: the codes two requests held at a time

vars == <<now, pages, codes, grant, req, uses, token, shared>>

Times == 0..MaxTime
Ungranted == [flow |-> None, state |-> None, asked |-> 0, at |-> 0]
Grants == [flow : Flows, state : States, asked : Times, at : Times] \cup {Ungranted}
NoRequest == [pc |-> "idle", code |-> None, flow |-> None]
NoToken == [flow |-> None, at |-> 0]

SecondOf(t) == t \div Second

Init ==
  /\ now = 0
  /\ pages = [s \in States |-> {}]
  /\ codes = {}
  /\ grant = [c \in Codes |-> Ungranted]
  /\ req = [r \in Requests |-> NoRequest]
  /\ uses = [c \in Codes |-> 0]
  /\ token = [c \in Codes |-> NoToken]
  /\ shared = {}

\* Slip: the approve token carries the end of its window, not its beginning.
SlipPageEnd(s) ==
  /\ Cardinality(pages[s] \cup {now}) <= MaxPages
  /\ pages' = [pages EXCEPT ![s] = @ \cup {now + ApproveWindow * Second}]
  /\ UNCHANGED <<now, codes, grant, req, uses, token, shared>>

\* GET /oauth/authorize: a page with an approve token of this state and second.
Authorize(s) ==
  /\ Cardinality(pages[s] \cup {now}) <= MaxPages
  /\ pages' = [pages EXCEPT ![s] = @ \cup {now}]
  /\ UNCHANGED <<now, codes, grant, req, uses, token, shared>>

\* Slip: the age of the approve token is not looked at.
SlipNoWindow(t) == TRUE

\* ValidateApproveToken of a token made at t: the seconds are compared.
StillApprovable(t) == SecondOf(now) - SecondOf(t) <= ApproveWindow

\* POST /oauth/approve: a new code, also when the page was approved before.
\* The state and the approve token are checked; the flow the code will be for
\* is the form's, whatever the page was made for.
Approve(s, t, f, c) ==
  /\ t \in pages[s]
  /\ StillApprovable(t)
  /\ grant[c] = Ungranted
  /\ grant' = [grant EXCEPT ![c] = [flow |-> f, state |-> s, asked |-> t, at |-> now]]
  /\ codes' = codes \cup {c}
  /\ UNCHANGED <<now, pages, req, uses, token, shared>>

\* POST /oauth/token, ExchangeCode's Load finds the code; the client presents
\* what it holds for flow f.
Lookup(r, c, f) ==
  /\ req[r].pc = "idle"
  /\ c \in codes
  /\ req' = [req EXCEPT ![r] = [pc |-> "delete", code |-> c, flow |-> f]]
  /\ shared' = IF \E q \in Requests : req[q].code = c THEN shared \cup {c} ELSE shared
  /\ UNCHANGED <<now, pages, codes, grant, uses, token>>

\* Slip: the code is kept until it has been exchanged.
SlipKeep(r) ==
  /\ req[r].pc = "delete"
  /\ req' = [req EXCEPT ![r].pc = "check"]
  /\ UNCHANGED <<now, pages, codes, grant, uses, token, shared>>

\* Whatever the checks will say, the code is taken out.
Delete(r) ==
  /\ req[r].pc = "delete"
  /\ codes' = codes \ {req[r].code}
  /\ req' = [req EXCEPT ![r].pc = "check"]
  /\ UNCHANGED <<now, pages, grant, uses, token, shared>>

\* Slip: what the client presents is not compared with the code.
SlipAnyFlow(c, f) == now <= grant[c].at + CodeLife

\* Not expired, same redirect URI and client, verifier of the challenge.
Matches(c, f) == now <= grant[c].at + CodeLife /\ grant[c].flow = f

\* GenerateAccessToken and the answer.
Issue(r) ==
  LET k == req[r] IN
  /\ k.pc = "check"
  /\ Matches(k.code, k.flow)
  /\ uses[k.code] < MaxUses
  /\ uses' = [uses EXCEPT ![k.code] = @ + 1]
  /\ token' = [token EXCEPT ![k.code] = [flow |-> k.flow, at |-> now]]
  /\ req' = [req EXCEPT ![r] = NoRequest]
  /\ UNCHANGED <<now, pages, codes, grant, shared>>

\* invalid_grant: the code is gone all the same.
Refuse(r) ==
  LET k == req[r] IN
  /\ k.pc = "check"
  /\ ~Matches(k.code, k.flow)
  /\ req' = [req EXCEPT ![r] = NoRequest]
  /\ UNCHANGED <<now, pages, codes, grant, uses, token, shared>>

\* The process dies and is started again; pages and tokens are elsewhere.
Restart ==
  /\ codes # {} \/ \E r \in Requests : req[r].pc # "idle"
  /\ codes' = {}
  /\ req' = [r \in Requests |-> NoRequest]
  /\ UNCHANGED <<now, pages, grant, uses, token, shared>>

Tick ==
  /\ now < MaxTime
  /\ now' = now + 1
  /\ UNCHANGED <<pages, codes, grant, req, uses, token, shared>>

Next ==
  \/ \E s \in States :
       \/ Authorize(s)
       \/ \E t \in Times, f \in Flows, c \in Codes : Approve(s, t, f, c)
  \/ \E r \in Requests, c \in Codes, f \in Flows : Lookup(r, c, f)
  \/ \E r \in Requests : Delete(r) \/ Issue(r) \/ Refuse(r)
  \/ Restart
  \/ Tick

Spec == Init /\ [][Next]_vars

\* Slip: the configured number is taken for the clock's own unit.
SlipUnit(t) == SecondOf(t + TokenLife \div Second) * Second

\* The exp claim of a token issued at t: NumericDate drops what is below a
\* second.  Verification wants the present time before it.
Expiry(t) == SecondOf(t + TokenLife) * Second
Accepted(c) == uses[c] > 0 /\ now < Expiry(token[c].at)

-----------------------------------------------------------------------------
(* Properties *)

TypeOK ==
  /\ now \in Times
  /\ pages \in [States -> SUBSET Times]
  /\ codes \subseteq Codes
  /\ grant \in [Codes -> Grants]
  /\ req \in [Requests -> [pc : {"idle", "delete", "check"}, code : Codes \cup {None},
                           flow : Flows \cup {None}]]
  /\ uses \in [Codes -> 0..MaxUses]
  /\ token \in [Codes -> [flow : Flows \cup {None}, at : Times]]
  /\ shared \subseteq Codes

\* A request that begins after a code was exchanged never finds it, whatever
\* overlaps and however often the server restarts
\* (Load and Delete in ExchangeCode).
UsedCodesAreGone == \A c \in codes : uses[c] = 0

\* Every token is for the flow that the form of one approval named, and that
\* approval answered a page the server had made for the state it carried (not
\* for the flow: nothing signed says that); the chain is in time, at most the
\* window and a second from the page to the approval, at most the life of a
\* code from there to the exchange (ValidateApproveToken, ExchangeCode).
TokensEarned ==
  \A c \in Codes : uses[c] > 0 =>
    LET g == grant[c] IN
    /\ token[c].flow = g.flow
    /\ g.asked \in pages[g.state]
    /\ g.at < g.asked + (ApproveWindow + 1) * Second
    /\ token[c].at - g.at \in 0..CodeLife

\* A code is worth one token, whatever else happens, unless two requests hold
\* it at a time (Load and Delete in ExchangeCode).
OneTokenUnlessShared == \A c \in Codes \ shared : uses[c] <= 1

\* src/docs/SECURITY.md:104: "Each authorization code can only be exchanged
\* once".
OneTokenPerCode == \A c \in Codes : uses[c] <= 1

\* What the answer calls expires_in is kept to within a second, for the last
\* token of each code: the token is refused once its life is over, and accepted
\* until a second before that, though its expiry is rounded down to a second
\* (TokenExpiry in GenerateAccessToken and handleToken).  A life of less than a
\* second promises nothing.
TokenLasts ==
  \A c \in Codes : uses[c] > 0 =>
    LET age == now - token[c].at IN
    /\ Accepted(c) => age < TokenLife
    /\ age + Second <= TokenLife => Accepted(c)

\* The code is in the map or in a request's hands.
AtHand(c) == c \in codes \/ \E r \in Requests : req[r].pc # "idle" /\ req[r].code = c

\* What module CodeGrant sees of code c.
CodeStatus(c) ==
  IF grant[c] = Ungranted THEN "unborn"
  ELSE IF c \in shared THEN "contested"
  ELSE IF uses[c] > 0 THEN "spent"
  ELSE IF AtHand(c) THEN "offered"
  ELSE "void"

Grant == INSTANCE CodeGrant WITH
  status <- [c \in Codes |-> CodeStatus(c)],
  owner <- [c \in Codes |-> grant[c].flow],
  tokens <- [c \in Codes |-> IF CodeStatus(c) = "spent" THEN uses[c] ELSE 0],
  bearer <- [c \in Codes |-> IF CodeStatus(c) = "spent" THEN token[c].flow ELSE None]

\* Whatever requests overlap, expire or die with the server: a code goes one
\* way only, from its approval to one token for the flow it was approved for,
\* or to nothing, and never comes back (the whole of handleApprove,
\* handleToken and ExchangeCode); a code that two requests hold at a time is
\* the exception that run oauth_retry shows.
ImplementsCodeGrant == Grant!Spec

=============================================================================
