----------------------------- MODULE OAuthProofs -----------------------------
(***************************************************************************)
(* Proofs about OAuth, for any states, flows, codes, requests and lives.   *)
(***************************************************************************)
EXTENDS OAuth, TLAPS

\* A code that is in the map, in a request or has been used was granted once
\* and so will never be handed out again.
Granted ==
  /\ \A c \in codes : grant[c] # Ungranted
  /\ \A c \in Codes : uses[c] > 0 => grant[c] # Ungranted
  /\ \A r \in Requests : req[r].pc # "idle" =>
       /\ req[r].code \in Codes
       /\ grant[req[r].code] # Ungranted

\* A request that is past Delete has taken its code out of the map.
Taken == \A r \in Requests : req[r].pc = "check" => req[r].code \notin codes

IInv == TypeOK /\ Granted /\ Taken /\ UsedCodesAreGone

\* A code that is not shared is held by one request, and is unused while it is.
OneAtATime ==
  \A r \in Requests : req[r].pc # "idle" /\ req[r].code \notin shared =>
    /\ uses[req[r].code] = 0
    /\ \A q \in Requests :
         req[q].pc # "idle" /\ req[q].code = req[r].code => q = r

SInv == IInv /\ OneAtATime /\ OneTokenUnlessShared

-----------------------------------------------------------------------------
(* Types *)

LEMMA InitType == Init => TypeOK
BY ClockAssumption, BoundsAssumption
DEF Init, TypeOK, Times, Grants, Ungranted, NoRequest, NoToken

LEMMA NextType ==
  ASSUME TypeOK, [Next]_vars
  PROVE  TypeOK'
<1>1. CASE UNCHANGED vars
  BY <1>1 DEF TypeOK, vars
<1>2. ASSUME NEW s \in States, Authorize(s) PROVE TypeOK'
  BY <1>2 DEF TypeOK, Authorize, Times
<1>3. ASSUME NEW s \in States, NEW t \in Times, NEW f \in Flows, NEW c \in Codes,
         Approve(s, t, f, c) PROVE TypeOK'
  <2>1. [flow |-> f, state |-> s, asked |-> t, at |-> now] \in Grants
    BY DEF TypeOK, Grants
  <2>2. grant' \in [Codes -> Grants]
    BY <1>3, <2>1 DEF TypeOK, Approve
  <2> QED BY <1>3, <2>2 DEF TypeOK, Approve
<1>4. ASSUME NEW f \in Flows, NEW r \in Requests, NEW c \in Codes, Lookup(r, c, f) PROVE TypeOK'
  BY <1>4 DEF TypeOK, Lookup
<1>5. ASSUME NEW r \in Requests, Delete(r) PROVE TypeOK'
  BY <1>5 DEF TypeOK, Delete
<1>6. ASSUME NEW r \in Requests, Issue(r) PROVE TypeOK'
  <2> DEFINE k == req[r]
  <2>1. k.flow \in Flows \cup {None} /\ now \in Times
    BY DEF TypeOK
  <2>2. uses' = [uses EXCEPT ![k.code] = uses[k.code] + 1] /\ uses[k.code] < MaxUses
    BY <1>6 DEF Issue
  <2>5. uses' \in [Codes -> 0..MaxUses]
    <3> HIDE DEF k
    <3>1. CASE k.code \in Codes
      <4>1. uses[k.code] + 1 \in 0..MaxUses
        BY <2>2, <3>1, BoundsAssumption DEF TypeOK
      <4> QED BY <2>2, <3>1, <4>1 DEF TypeOK
    <3>2. CASE k.code \notin Codes
      BY <2>2, <3>2 DEF TypeOK
    <3> QED BY <3>1, <3>2
  <2>3. token' \in [Codes -> [flow : Flows \cup {None}, at : Times]]
    BY <1>6, <2>1 DEF TypeOK, Issue
  <2>4. req' = [req EXCEPT ![r] = NoRequest] /\ UNCHANGED <<now, pages, codes, grant, shared>>
    BY <1>6 DEF Issue
  <2> QED BY <2>3, <2>4, <2>5 DEF TypeOK, NoRequest
<1>7. ASSUME NEW r \in Requests, Refuse(r) PROVE TypeOK'
  BY <1>7 DEF TypeOK, Refuse, NoRequest
<1>8. CASE Restart
  BY <1>8 DEF TypeOK, Restart, NoRequest
<1>9. CASE Tick
  BY <1>9, ClockAssumption DEF TypeOK, Tick, Times
<1> QED BY <1>1, <1>2, <1>3, <1>4, <1>5, <1>6, <1>7, <1>8, <1>9 DEF Next

-----------------------------------------------------------------------------
(* Codes *)

LEMMA InitInv == Init => SInv
<1> SUFFICES ASSUME Init PROVE SInv
  OBVIOUS
<1>1. \A r \in Requests : req[r].pc = "idle"
  BY DEF Init, NoRequest
<1>2. codes = {} /\ \A c \in Codes : uses[c] = 0
  BY DEF Init
<1>3. Granted /\ Taken /\ UsedCodesAreGone /\ OneAtATime /\ OneTokenUnlessShared
  BY <1>1, <1>2 DEF Granted, Taken, UsedCodesAreGone, OneAtATime, OneTokenUnlessShared
<1> QED BY <1>3, InitType DEF SInv, IInv

\* A new code is in no request and has no token.
LEMMA ApproveInv ==
  ASSUME IInv, NEW s \in States, NEW t \in Times, NEW f \in Flows, NEW c \in Codes,
         Approve(s, t, f, c), TypeOK'
  PROVE  /\ IInv'
         /\ OneAtATime => OneAtATime'
         /\ OneTokenUnlessShared => OneTokenUnlessShared'
<1>1. /\ grant[c] = Ungranted /\ grant' = [grant EXCEPT ![c] = [flow |-> f, state |-> s, asked |-> t, at |-> now]]
      /\ codes' = codes \cup {c} /\ req' = req /\ uses' = uses /\ shared' = shared
  BY DEF Approve
<1>2. f # None /\ [flow |-> f, state |-> s, asked |-> t, at |-> now] # Ungranted
  BY NoneAssumption DEF Ungranted
<1>3. \A d \in Codes : grant'[d] = IF d = c THEN [flow |-> f, state |-> s, asked |-> t, at |-> now] ELSE grant[d]
  BY <1>1 DEF IInv, TypeOK
<1>4. Granted'
  BY <1>1, <1>2, <1>3 DEF IInv, TypeOK, Granted
<1>5. uses[c] = 0 /\ \A r \in Requests : req[r].pc # "idle" => req[r].code # c
  BY <1>1 DEF IInv, TypeOK, Granted
<1>6. Taken' /\ UsedCodesAreGone'
  BY <1>1, <1>5 DEF IInv, Taken, UsedCodesAreGone
<1>7. /\ OneAtATime => OneAtATime'
      /\ OneTokenUnlessShared => OneTokenUnlessShared'
  BY <1>1 DEF OneAtATime, OneTokenUnlessShared
<1> QED BY <1>4, <1>6, <1>7 DEF IInv

LEMMA LookupInv ==
  ASSUME IInv, NEW f \in Flows, NEW r \in Requests, NEW c \in Codes, Lookup(r, c, f), TypeOK'
  PROVE  /\ IInv'
         /\ OneAtATime => OneAtATime'
         /\ OneTokenUnlessShared => OneTokenUnlessShared'
<1>1. /\ c \in codes /\ req' = [req EXCEPT ![r] = [pc |-> "delete", code |-> c, flow |-> f]]
      /\ codes' = codes /\ grant' = grant /\ uses' = uses
      /\ shared' = IF \E q \in Requests : req[q].code = c THEN shared \cup {c} ELSE shared
  BY DEF Lookup
<1>2. /\ req'[r].pc = "delete" /\ req'[r].code = c
      /\ \A q \in Requests : q # r => req'[q] = req[q]
  BY <1>1 DEF IInv, TypeOK
<1>3. Granted' /\ Taken' /\ UsedCodesAreGone'
  BY <1>1, <1>2 DEF IInv, Granted, Taken, UsedCodesAreGone
<1>4. uses[c] = 0
  BY <1>1 DEF IInv, UsedCodesAreGone
<1>5. shared \subseteq shared' /\ (c \notin shared' => \A q \in Requests : req[q].code # c)
  BY <1>1
<1>6. OneAtATime => OneAtATime'
  <2> SUFFICES ASSUME OneAtATime,
                      NEW p \in Requests, req'[p].pc # "idle", req'[p].code \notin shared'
               PROVE  /\ uses[req'[p].code] = 0
                      /\ \A q \in Requests :
                           req'[q].pc # "idle" /\ req'[q].code = req'[p].code => q = p
    BY <1>1 DEF OneAtATime
  <2>1. CASE p = r
    BY <1>2, <1>4, <1>5, <2>1
  <2>2. CASE p # r
    BY <1>2, <1>5, <2>2 DEF OneAtATime
  <2> QED BY <2>1, <2>2
<1>7. OneTokenUnlessShared => OneTokenUnlessShared'
  BY <1>1, <1>5 DEF OneTokenUnlessShared
<1> QED BY <1>3, <1>6, <1>7 DEF IInv

LEMMA DeleteInv ==
  ASSUME IInv, NEW r \in Requests, Delete(r), TypeOK'
  PROVE  /\ IInv'
         /\ OneAtATime => OneAtATime'
         /\ OneTokenUnlessShared => OneTokenUnlessShared'
<1>1. /\ req[r].pc = "delete" /\ req' = [req EXCEPT ![r].pc = "check"]
      /\ codes' = codes \ {req[r].code} /\ grant' = grant /\ uses' = uses /\ shared' = shared
  BY DEF Delete
<1>2. /\ req'[r].pc = "check" /\ req'[r].code = req[r].code
      /\ \A q \in Requests : q # r => req'[q] = req[q]
  BY <1>1 DEF IInv, TypeOK
<1>3. Granted' /\ Taken' /\ UsedCodesAreGone'
  BY <1>1, <1>2 DEF IInv, Granted, Taken, UsedCodesAreGone
<1>4. OneAtATime => OneAtATime'
  BY <1>1, <1>2 DEF OneAtATime
<1> QED BY <1>1, <1>3, <1>4 DEF IInv, OneTokenUnlessShared

\* The code of a request that is past Delete is not in the map: using it
\* leaves the codes in the map unused.
LEMMA IssueInv ==
  ASSUME IInv, NEW r \in Requests, Issue(r), TypeOK'
  PROVE  /\ IInv'
         /\ OneAtATime => OneAtATime'
         /\ OneAtATime /\ OneTokenUnlessShared => OneTokenUnlessShared'
<1> DEFINE d == req[r].code
<1>1. /\ req[r].pc = "check" /\ req' = [req EXCEPT ![r] = NoRequest]
      /\ uses' = [uses EXCEPT ![d] = uses[d] + 1] /\ codes' = codes /\ grant' = grant
      /\ shared' = shared
  BY DEF Issue
<1>2. d \in Codes /\ d \notin codes /\ grant[d] # Ungranted
  BY <1>1 DEF IInv, Granted, Taken
<1>3. \A c \in Codes : uses'[c] = IF c = d THEN uses[d] + 1 ELSE uses[c]
  BY <1>1 DEF IInv, TypeOK
<1>4. /\ req'[r].pc = "idle"
      /\ \A q \in Requests : q # r => req'[q] = req[q]
  BY <1>1 DEF IInv, TypeOK, NoRequest
<1> HIDE DEF d
<1>5. Granted'
  <2>1. \A c \in codes' : grant'[c] # Ungranted
    BY <1>1 DEF IInv, Granted
  <2>2. \A c \in Codes : uses'[c] > 0 => grant'[c] # Ungranted
    BY <1>1, <1>2, <1>3 DEF IInv, Granted
  <2>3. \A q \in Requests : req'[q].pc # "idle" =>
          req'[q].code \in Codes /\ grant'[req'[q].code] # Ungranted
    BY <1>1, <1>4 DEF IInv, Granted
  <2> QED BY <2>1, <2>2, <2>3 DEF Granted
<1>6. Taken'
  BY <1>1, <1>4 DEF IInv, Taken
<1>7. UsedCodesAreGone'
  BY <1>1, <1>2, <1>3 DEF IInv, TypeOK, UsedCodesAreGone
<1>8. OneAtATime => OneAtATime'
  <2> SUFFICES ASSUME OneAtATime,
                      NEW p \in Requests, req'[p].pc # "idle", req'[p].code \notin shared
               PROVE  /\ uses'[req'[p].code] = 0
                      /\ \A q \in Requests :
                           req'[q].pc # "idle" /\ req'[q].code = req'[p].code => q = p
    BY <1>1 DEF OneAtATime
  <2>1. p # r /\ req'[p] = req[p]
    BY <1>4
  <2>2. req[p].code # d /\ req[p].code \in Codes
    BY <1>1, <2>1 DEF OneAtATime, IInv, Granted, d
  <2>3. uses'[req[p].code] = 0
    BY <1>3, <2>1, <2>2 DEF OneAtATime
  <2> QED BY <1>4, <2>1, <2>3 DEF OneAtATime
<1>9. OneAtATime /\ OneTokenUnlessShared => OneTokenUnlessShared'
  <2> SUFFICES ASSUME OneAtATime, OneTokenUnlessShared PROVE OneTokenUnlessShared'
    OBVIOUS
  <2>1. d \notin shared => uses[d] = 0
    BY <1>1 DEF OneAtATime, d
  <2> QED BY <1>1, <1>3, <2>1 DEF OneTokenUnlessShared
<1> QED BY <1>5, <1>6, <1>7, <1>8, <1>9 DEF IInv

LEMMA RefuseInv ==
  ASSUME IInv, NEW r \in Requests, Refuse(r), TypeOK'
  PROVE  /\ IInv'
         /\ OneAtATime => OneAtATime'
         /\ OneTokenUnlessShared => OneTokenUnlessShared'
<1>1. /\ req' = [req EXCEPT ![r] = NoRequest]
      /\ codes' = codes /\ grant' = grant /\ uses' = uses /\ shared' = shared
  BY DEF Refuse
<1>2. /\ req'[r].pc = "idle"
      /\ \A q \in Requests : q # r => req'[q] = req[q]
  BY <1>1 DEF IInv, TypeOK, NoRequest
<1>3. Granted' /\ Taken' /\ UsedCodesAreGone'
  BY <1>1, <1>2 DEF IInv, Granted, Taken, UsedCodesAreGone
<1>4. OneAtATime => OneAtATime'
  BY <1>1, <1>2 DEF OneAtATime
<1> QED BY <1>1, <1>3, <1>4 DEF IInv, OneTokenUnlessShared

LEMMA RestartInv ==
  ASSUME IInv, Restart, TypeOK'
  PROVE  /\ IInv'
         /\ OneAtATime => OneAtATime'
         /\ OneTokenUnlessShared => OneTokenUnlessShared'
<1>1. /\ \A r \in Requests : req'[r].pc = "idle"
      /\ codes' = {} /\ grant' = grant /\ uses' = uses /\ shared' = shared
  BY DEF Restart, NoRequest
<1> QED BY <1>1 DEF IInv, Granted, Taken, UsedCodesAreGone, OneAtATime, OneTokenUnlessShared

LEMMA NextInv ==
  ASSUME IInv, [Next]_vars
  PROVE  /\ IInv'
         /\ OneAtATime => OneAtATime'
         /\ OneAtATime /\ OneTokenUnlessShared => OneTokenUnlessShared'
<1>1. TypeOK'
  BY NextType DEF IInv
<1>2. CASE UNCHANGED <<codes, grant, req, uses, shared>>
  BY <1>1, <1>2 DEF IInv, Granted, Taken, UsedCodesAreGone, OneAtATime, OneTokenUnlessShared
<1>3. CASE UNCHANGED vars
  BY <1>2, <1>3 DEF vars
<1>4. ASSUME NEW s \in States, Authorize(s) PROVE UNCHANGED <<codes, grant, req, uses, shared>>
  BY <1>4 DEF Authorize
<1>5. CASE Tick
  BY <1>2, <1>5 DEF Tick
<1>6. CASE \E s \in States, t \in Times, f \in Flows, c \in Codes : Approve(s, t, f, c)
  BY <1>1, <1>6, ApproveInv
<1>7. CASE \E f \in Flows, r \in Requests, c \in Codes : Lookup(r, c, f)
  BY <1>1, <1>7, LookupInv
<1>8. CASE \E r \in Requests : Delete(r) \/ Issue(r) \/ Refuse(r)
  BY <1>1, <1>8, DeleteInv, IssueInv, RefuseInv
<1>9. CASE Restart
  BY <1>1, <1>9, RestartInv
<1> QED BY <1>2, <1>3, <1>4, <1>5, <1>6, <1>7, <1>8, <1>9 DEF Next

-----------------------------------------------------------------------------
(* Tokens *)

\* What a code was granted for happened, and in time.
GrantsEarned ==
  \A c \in Codes : grant[c] # Ungranted =>
    LET g == grant[c] IN
    /\ g.flow \in Flows /\ g.state \in States /\ g.asked \in pages[g.state]
    /\ g.at <= now
    /\ g.at < g.asked + (ApproveWindow + 1) * Second

\* So did the exchange.
TokensMatch ==
  \A c \in Codes : uses[c] > 0 =>
    /\ grant[c] # Ungranted
    /\ token[c].flow = grant[c].flow
    /\ token[c].at - grant[c].at \in 0..CodeLife

EInv == GrantsEarned /\ TokensMatch

\* The clock is read in whole seconds, which makes the window up to one longer.
LEMMA WindowInTicks ==
  ASSUME NEW a \in Nat, NEW b \in Nat, SecondOf(a) - SecondOf(b) <= ApproveWindow
  PROVE  a < b + (ApproveWindow + 1) * Second
<1> DEFINE p == a \div Second
           q == b \div Second
<1>1. /\ p \in Nat /\ q \in Nat
      /\ a < (p + 1) * Second /\ q * Second <= b
  BY ClockAssumption
<1>2. p + 1 <= q + ApproveWindow + 1
  BY <1>1, ClockAssumption DEF SecondOf
<1> HIDE DEF p, q
<1>3. (p + 1) * Second <= (q + ApproveWindow + 1) * Second
  BY <1>1, <1>2, ClockAssumption
<1>4. (q + ApproveWindow + 1) * Second = q * Second + (ApproveWindow + 1) * Second
  BY <1>1, ClockAssumption
<1> QED BY <1>1, <1>3, <1>4, ClockAssumption

LEMMA ApproveEarned ==
  ASSUME IInv, EInv, NEW s \in States, NEW t \in Times, NEW f \in Flows, NEW c \in Codes,
         Approve(s, t, f, c)
  PROVE  EInv'
<1> DEFINE g == [flow |-> f, state |-> s, asked |-> t, at |-> now]
<1>1. /\ t \in pages[s] /\ StillApprovable(t) /\ grant[c] = Ungranted
      /\ grant' = [grant EXCEPT ![c] = g]
      /\ UNCHANGED <<now, pages, uses, token>>
  BY DEF Approve
<1>2. now \in Nat /\ t \in Nat
  BY ClockAssumption DEF IInv, TypeOK, Times
<1>3. now < t + (ApproveWindow + 1) * Second
  BY <1>1, <1>2, WindowInTicks DEF StillApprovable
<1>4. \A d \in Codes : grant'[d] = IF d = c THEN g ELSE grant[d]
  BY <1>1 DEF IInv, TypeOK
<1>5. GrantsEarned'
  BY <1>1, <1>2, <1>3, <1>4 DEF EInv, GrantsEarned
<1>6. TokensMatch'
  BY <1>1, <1>4 DEF EInv, TokensMatch
<1> QED BY <1>5, <1>6 DEF EInv

LEMMA IssueEarned ==
  ASSUME IInv, EInv, NEW r \in Requests, Issue(r)
  PROVE  EInv'
<1> DEFINE d == req[r].code
<1>1. /\ req[r].pc = "check" /\ Matches(d, req[r].flow)
      /\ uses' = [uses EXCEPT ![d] = uses[d] + 1]
      /\ token' = [token EXCEPT ![d] = [flow |-> req[r].flow, at |-> now]]
      /\ UNCHANGED <<now, pages, grant>>
  BY DEF Issue
<1>2. d \in Codes /\ grant[d] # Ungranted
  BY <1>1 DEF IInv, Granted
<1> HIDE DEF d
<1>3. /\ \A c \in Codes : c # d => uses'[c] = uses[c] /\ token'[c] = token[c]
      /\ token'[d].flow = req[r].flow /\ token'[d].at = now
  BY <1>1, <1>2 DEF IInv, TypeOK
<1>4. now \in Nat /\ grant[d].at \in Nat
  BY <1>2, ClockAssumption DEF IInv, TypeOK, Times, Grants, Ungranted
<1>5. grant[d].at <= now /\ now <= grant[d].at + CodeLife /\ grant[d].flow = req[r].flow
  BY <1>1, <1>2 DEF EInv, GrantsEarned, Matches
<1>6. now - grant[d].at \in 0..CodeLife
  BY <1>4, <1>5, ClockAssumption
<1>7. TokensMatch'
  BY <1>1, <1>2, <1>3, <1>5, <1>6 DEF EInv, TokensMatch
<1>8. GrantsEarned'
  BY <1>1 DEF EInv, GrantsEarned
<1> QED BY <1>7, <1>8 DEF EInv

LEMMA NextEarned ==
  ASSUME IInv, EInv, [Next]_vars
  PROVE  EInv'
<1>1. CASE UNCHANGED <<now, pages, grant, uses, token>>
  BY <1>1 DEF EInv, GrantsEarned, TokensMatch
<1>2. CASE UNCHANGED vars
  BY <1>1, <1>2 DEF vars
<1>3. ASSUME NEW s \in States, Authorize(s) PROVE EInv'
  <2>1. /\ pages' = [pages EXCEPT ![s] = pages[s] \cup {now}]
        /\ UNCHANGED <<now, grant, uses, token>>
    BY <1>3 DEF Authorize
  <2>2. \A e \in States : pages[e] \subseteq pages'[e]
    BY <2>1 DEF IInv, TypeOK
  <2> QED BY <2>1, <2>2 DEF EInv, GrantsEarned, TokensMatch
<1>4. ASSUME NEW s \in States, NEW t \in Times, NEW f \in Flows, NEW c \in Codes,
         Approve(s, t, f, c) PROVE EInv'
  BY <1>4, ApproveEarned
<1>5. ASSUME NEW r \in Requests, Issue(r) PROVE EInv'
  BY <1>5, IssueEarned
<1>6. CASE Tick
  <2>1. /\ now' = now + 1 /\ now \in Nat
        /\ UNCHANGED <<pages, grant, uses, token>>
    BY <1>6, ClockAssumption DEF Tick, IInv, TypeOK, Times
  <2>2. \A c \in Codes : grant[c].at \in Nat
    BY ClockAssumption DEF IInv, TypeOK, Times, Grants, Ungranted
  <2> QED BY <2>1, <2>2 DEF EInv, GrantsEarned, TokensMatch
<1>7. ASSUME NEW f \in Flows, NEW r \in Requests, NEW c \in Codes, Lookup(r, c, f) PROVE EInv'
  BY <1>1, <1>7 DEF Lookup
<1>8. ASSUME NEW r \in Requests, Delete(r) \/ Refuse(r) PROVE EInv'
  BY <1>1, <1>8 DEF Delete, Refuse
<1>9. CASE Restart
  BY <1>1, <1>9 DEF Restart
<1> QED BY <1>2, <1>3, <1>4, <1>5, <1>6, <1>7, <1>8, <1>9 DEF Next

\* Tokens are of the past.
TokensPast == \A c \in Codes : token[c].at <= now

LEMMA NextPast ==
  ASSUME TypeOK, TypeOK', TokensPast, [Next]_vars
  PROVE  TokensPast'
<1>1. now \in Nat /\ \A c \in Codes : token[c].at \in Nat
  BY ClockAssumption DEF TypeOK, Times
<1>2. CASE token' = token /\ (now' = now \/ now' = now + 1)
  BY <1>1, <1>2 DEF TokensPast
<1>3. ASSUME NEW r \in Requests, Issue(r) PROVE TokensPast'
  <2>1. /\ token' = [token EXCEPT ![req[r].code] = [flow |-> req[r].flow, at |-> now]]
        /\ now' = now
    BY <1>3 DEF Issue
  <2> QED BY <1>1, <2>1 DEF TokensPast, TypeOK
<1> QED
  BY <1>2, <1>3 DEF Next, vars, Authorize, Approve, Lookup, Delete, Refuse, Restart, Tick

\* What dropping the rest of a second takes from the life of a token is less
\* than a second.
LEMMA ExpiryWithinASecond ==
  ASSUME NEW t \in Nat
  PROVE  /\ Expiry(t) \in Nat
         /\ Expiry(t) <= t + TokenLife
         /\ t + TokenLife < Expiry(t) + Second
<1> DEFINE q == (t + TokenLife) \div Second
<1>1. q \in Nat /\ q * Second <= t + TokenLife /\ t + TokenLife < (q + 1) * Second
  BY ClockAssumption
<1> HIDE DEF q
<1>2. (q + 1) * Second = q * Second + Second /\ q * Second \in Nat
  BY <1>1, ClockAssumption
<1>3. Expiry(t) = q * Second
  BY DEF Expiry, SecondOf, q
<1> QED BY <1>1, <1>2, <1>3

LEMMA ExpiryBoundsLife ==
  ASSUME TypeOK, TokensPast
  PROVE  TokenLasts
<1> SUFFICES ASSUME NEW c \in Codes, uses[c] > 0
             PROVE  /\ Accepted(c) => now - token[c].at < TokenLife
                    /\ now - token[c].at + Second <= TokenLife => Accepted(c)
  BY DEF TokenLasts
<1> DEFINE t == token[c].at
           e == Expiry(t)
<1>1. now \in Nat /\ t \in Nat /\ t <= now
  BY ClockAssumption DEF TypeOK, TokensPast, Times
<1>2. e \in Nat /\ e <= t + TokenLife /\ t + TokenLife < e + Second
  BY <1>1, ExpiryWithinASecond
<1>3. Accepted(c) <=> now < e
  BY DEF Accepted
<1> HIDE DEF t, e
<1>4. Accepted(c) => now - t < TokenLife
  BY <1>1, <1>2, <1>3, ClockAssumption
<1>5. now - t + Second <= TokenLife => Accepted(c)
  BY <1>1, <1>2, <1>3, ClockAssumption
<1> QED BY <1>4, <1>5 DEF t

-----------------------------------------------------------------------------
(* Theorems *)

\* Codes, requests, grants and tokens are what they should be (the maps of
\* internal/auth).
THEOREM OAuthTyped == Spec => []TypeOK
BY InitType, NextType, PTL DEF Spec

\* However requests overlap and the server restarts: a code that has been
\* exchanged is out of the map, so that no later request finds it
\* (ExchangeCode).
THEOREM UsedCodesStayGone == Spec => []UsedCodesAreGone
<1>1. Init => IInv
  BY InitInv DEF SInv
<1>2. IInv /\ [Next]_vars => IInv'
  BY NextInv
<1>3. IInv => UsedCodesAreGone
  BY DEF IInv
<1> QED BY <1>1, <1>2, <1>3, PTL DEF Spec

\* A code that no two requests held at a time is worth one token, over any
\* number of flows, requests and restarts (ExchangeCode).
THEOREM OneToken == Spec => []OneTokenUnlessShared
<1>1. Init => SInv
  BY InitInv
<1>2. SInv /\ [Next]_vars => SInv'
  BY NextInv DEF SInv
<1>3. SInv => OneTokenUnlessShared
  BY DEF SInv
<1> QED BY <1>1, <1>2, <1>3, PTL DEF Spec

\* Every token is for the flow that one approval's form named, and that approval
\* answered a page made for the state it carried; the chain is in time, for any
\* window, lives and length of a second (handleApprove, ValidateApproveToken,
\* ExchangeCode).
THEOREM EveryTokenEarned == Spec => []TokensEarned
<1>1. Init => IInv /\ EInv
  BY InitInv DEF SInv, Init, EInv, GrantsEarned, TokensMatch
<1>2. IInv /\ EInv /\ [Next]_vars => IInv' /\ EInv'
  BY NextInv, NextEarned
<1>3. EInv => TokensEarned
  BY DEF EInv, GrantsEarned, TokensMatch, TokensEarned
<1> QED BY <1>1, <1>2, <1>3, PTL DEF Spec


\* For any configured life and length of a second: the last token of a code is
\* refused from the end of its life on, and accepted until a second before it
\* (TokenExpiry, jwt.NewNumericDate in GenerateAccessToken).
THEOREM TokensLast == Spec => []TokenLasts
<1>1. Init => TokensPast
  BY DEF Init, TokensPast, NoToken
<1>2. TypeOK /\ TypeOK' /\ TokensPast /\ [Next]_vars => TokensPast'
  BY NextPast
<1>3. TypeOK /\ TokensPast => TokenLasts
  BY ExpiryBoundsLife
<1> QED BY <1>1, <1>2, <1>3, OAuthTyped, PTL DEF Spec

-----------------------------------------------------------------------------
(* The refinement of CodeGrant *)

\* Only a code that was granted can be in two hands.
SharedGranted == \A c \in shared : grant[c] # Ungranted

RInv == SInv /\ SharedGranted

\* What CodeGrant sees of the codes.
ShownStatus == [c \in Codes |-> CodeStatus(c)]
ShownOwner == [c \in Codes |-> grant[c].flow]
ShownTokens == [c \in Codes |-> IF CodeStatus(c) = "spent" THEN uses[c] ELSE 0]
ShownBearer == [c \in Codes |-> IF CodeStatus(c) = "spent" THEN token[c].flow ELSE None]
Shown == <<ShownStatus, ShownOwner, ShownTokens, ShownBearer>>

\* A step that leaves what is known of a code alone does not show in it.
LEMMA SameCode ==
  ASSUME NEW c \in Codes, grant'[c] = grant[c], uses'[c] = uses[c],
         c \in shared' <=> c \in shared, AtHand(c)' <=> AtHand(c)
  PROVE  CodeStatus(c)' = CodeStatus(c)
BY DEF CodeStatus

\* A step of which nothing shows.
LEMMA NothingShows ==
  ASSUME UNCHANGED <<grant, uses, token, shared>>,
         \A c \in Codes : AtHand(c)' <=> AtHand(c)
  PROVE  Shown' = Shown
<1>1. \A c \in Codes : CodeStatus(c)' = CodeStatus(c)
  BY SameCode
<1> QED BY <1>1 DEF Shown, ShownStatus, ShownOwner, ShownTokens, ShownBearer

\* A code in the map or in a request's hands, and in no other's, is offered.
LEMMA AtHandIsOffered ==
  ASSUME RInv, NEW c \in Codes, AtHand(c), c \notin shared
  PROVE  CodeStatus(c) = "offered" /\ uses[c] = 0
<1>1. uses[c] = 0
  <2>1. CASE c \in codes
    BY <2>1 DEF RInv, SInv, IInv, UsedCodesAreGone
  <2>2. CASE \E r \in Requests : req[r].pc # "idle" /\ req[r].code = c
    BY <2>2 DEF RInv, SInv, OneAtATime
  <2> QED BY <2>1, <2>2 DEF AtHand
<1>2. grant[c] # Ungranted
  BY DEF AtHand, RInv, SInv, IInv, Granted
<1> QED BY <1>1, <1>2 DEF CodeStatus

LEMMA InitShown == Init => RInv /\ Grant!Init
<1> SUFFICES ASSUME Init PROVE RInv /\ Grant!Init
  OBVIOUS
<1>1. RInv
  BY InitInv DEF RInv, SharedGranted, Init
<1>2. \A c \in Codes : CodeStatus(c) = "unborn" /\ grant[c].flow = None
  BY DEF Init, CodeStatus, Ungranted
<1> QED BY <1>1, <1>2 DEF Grant!Init

\* The approval of a page offers a code.
LEMMA ApproveOffers ==
  ASSUME RInv, NEW s \in States, NEW t \in Times, NEW f \in Flows, NEW d \in Codes, Approve(s, t, f, d)
  PROVE  Grant!Next
<1>1. /\ grant[d] = Ungranted
      /\ grant' = [grant EXCEPT ![d] = [flow |-> f, state |-> s, asked |-> t, at |-> now]]
      /\ codes' = codes \cup {d}
      /\ UNCHANGED <<req, uses, token, shared>>
  BY DEF Approve
<1>2. /\ grant'[d] = [flow |-> f, state |-> s, asked |-> t, at |-> now]
      /\ \A c \in Codes : c # d => grant'[c] = grant[c]
  BY <1>1 DEF RInv, SInv, IInv, TypeOK
<1>3. grant'[d] # Ungranted /\ grant'[d].flow = f
  BY <1>2, NoneAssumption DEF Ungranted
<1>4. uses[d] = 0 /\ d \notin shared
  BY <1>1 DEF RInv, SharedGranted, SInv, IInv, Granted, TypeOK
<1>5. CodeStatus(d) = "unborn" /\ CodeStatus(d)' = "offered"
  BY <1>1, <1>3, <1>4 DEF CodeStatus, AtHand
<1>6. ASSUME NEW c \in Codes, c # d PROVE CodeStatus(c)' = CodeStatus(c)
  <2>1. AtHand(c)' <=> AtHand(c)
    BY <1>1, <1>6 DEF AtHand
  <2> QED BY <1>1, <1>2, <1>6, <2>1, SameCode
<1>7. ShownStatus' = [ShownStatus EXCEPT ![d] = "offered"]
  BY <1>5, <1>6 DEF ShownStatus
<1>8. ShownOwner' = [ShownOwner EXCEPT ![d] = f]
  BY <1>2, <1>3 DEF ShownOwner
<1>9. ShownTokens' = ShownTokens /\ ShownBearer' = ShownBearer
  BY <1>1, <1>5, <1>6 DEF ShownTokens, ShownBearer
<1>10. Grant!Offer(d, f)
  BY <1>5, <1>7, <1>8, <1>9
  DEF Grant!Offer, ShownStatus, ShownOwner, ShownTokens, ShownBearer
<1> QED BY <1>10 DEF Grant!Next

\* A request that finds a code already in another's hands contests it.
LEMMA LookupContests ==
  ASSUME RInv, NEW f \in Flows, NEW r \in Requests, NEW d \in Codes, Lookup(r, d, f)
  PROVE  Grant!Next \/ Shown' = Shown
<1>1. /\ req[r].pc = "idle" /\ d \in codes
      /\ req' = [req EXCEPT ![r] = [pc |-> "delete", code |-> d, flow |-> f]]
      /\ shared' = shared \/ shared' = shared \cup {d}
      /\ UNCHANGED <<codes, grant, uses, token>>
  BY DEF Lookup
<1>2. \A c \in Codes : AtHand(c)' <=> AtHand(c)
  BY <1>1 DEF AtHand, RInv, SInv, IInv, TypeOK
<1>3. CASE shared' = shared
  BY <1>1, <1>2, <1>3, NothingShows
<1>4. CASE shared' = shared \cup {d} /\ d \notin shared
  <2>1. AtHand(d) /\ CodeStatus(d) = "offered"
    BY <1>1, <1>4, AtHandIsOffered DEF AtHand
  <2>2. CodeStatus(d)' = "contested"
    BY <1>1, <1>4 DEF CodeStatus, RInv, SInv, IInv, Granted
  <2>3. \A c \in Codes : c # d => CodeStatus(c)' = CodeStatus(c)
    BY <1>1, <1>2, <1>4, SameCode
  <2>4. ShownStatus' = [ShownStatus EXCEPT ![d] = "contested"]
    BY <2>2, <2>3 DEF ShownStatus
  <2>5. ShownOwner' = ShownOwner /\ ShownTokens' = ShownTokens /\ ShownBearer' = ShownBearer
    BY <1>1, <2>1, <2>2, <2>3 DEF ShownOwner, ShownTokens, ShownBearer
  <2>6. Grant!Contest(d)
    BY <2>1, <2>4, <2>5
    DEF Grant!Contest, ShownStatus, ShownOwner, ShownTokens, ShownBearer
  <2> QED BY <2>6 DEF Grant!Next
<1> QED BY <1>1, <1>3, <1>4

\* A code that is taken out of the map stays in the hands of its request.
LEMMA DeleteShows ==
  ASSUME RInv, NEW r \in Requests, Delete(r)
  PROVE  Shown' = Shown
<1>1. /\ req[r].pc = "delete" /\ req' = [req EXCEPT ![r].pc = "check"]
      /\ codes' = codes \ {req[r].code}
      /\ UNCHANGED <<grant, uses, token, shared>>
  BY DEF Delete
<1>2. \A q \in Requests : /\ req'[q].code = req[q].code
                          /\ req'[q].pc # "idle" <=> req[q].pc # "idle"
  BY <1>1 DEF RInv, SInv, IInv, TypeOK
<1>3. \A c \in Codes : AtHand(c)' <=> AtHand(c)
  BY <1>1, <1>2 DEF AtHand
<1> QED BY <1>1, <1>3, NothingShows

\* What is in the hands of r alone is nowhere once r is through.
LEMMA LetGo ==
  ASSUME RInv, NEW r \in Requests, NEW d \in Codes, d = req[r].code, req[r].pc = "check",
         req' = [req EXCEPT ![r] = NoRequest], codes' = codes
  PROVE  /\ AtHand(d)
         /\ d \notin shared => ~AtHand(d)'
         /\ \A c \in Codes \ {d} : AtHand(c)' <=> AtHand(c)
<1>1. d \notin codes /\ AtHand(d)
  BY DEF RInv, SInv, IInv, Taken, AtHand
<1>2. /\ req'[r].pc = "idle"
      /\ \A q \in Requests : q # r => req'[q] = req[q]
  BY DEF RInv, SInv, IInv, TypeOK, NoRequest
<1>3. d \notin shared => \A q \in Requests : req[q].pc # "idle" /\ req[q].code = d => q = r
  BY DEF RInv, SInv, OneAtATime
<1>4. d \notin shared => ~AtHand(d)'
  BY <1>1, <1>2, <1>3 DEF AtHand
<1>5. \A c \in Codes \ {d} : AtHand(c)' <=> AtHand(c)
  BY <1>2 DEF AtHand
<1> QED BY <1>1, <1>4, <1>5

\* The answer with a token redeems a code that is in no other's hands.
LEMMA IssueRedeems ==
  ASSUME RInv, NEW r \in Requests, Issue(r)
  PROVE  Grant!Next \/ Shown' = Shown
<1>1. PICK d \in Codes : d = req[r].code
  BY DEF RInv, SInv, IInv, Granted, Issue
<1>2. /\ req[r].pc = "check" /\ Matches(d, req[r].flow)
      /\ uses' = [uses EXCEPT ![d] = uses[d] + 1]
      /\ token' = [token EXCEPT ![d] = [flow |-> req[r].flow, at |-> now]]
      /\ req' = [req EXCEPT ![r] = NoRequest]
      /\ UNCHANGED <<codes, grant, shared>>
  BY <1>1 DEF Issue
<1>3. /\ uses'[d] = uses[d] + 1
      /\ token'[d].flow = grant[d].flow
      /\ \A c \in Codes : c # d => uses'[c] = uses[c] /\ token'[c] = token[c]
  BY <1>2 DEF RInv, SInv, IInv, TypeOK, Matches
<1>4. \A c \in Codes : c # d => CodeStatus(c)' = CodeStatus(c)
  BY <1>1, <1>2, <1>3, LetGo, SameCode
<1>5. grant[d] # Ungranted /\ AtHand(d)
  BY <1>1, <1>2, LetGo DEF RInv, SInv, IInv, Granted
<1>6. CASE d \in shared
  <2>1. CodeStatus(d) = "contested" /\ CodeStatus(d)' = "contested"
    BY <1>2, <1>5, <1>6 DEF CodeStatus
  <2>2. ShownStatus' = ShownStatus /\ ShownOwner' = ShownOwner
    BY <1>2, <1>4, <2>1 DEF ShownStatus, ShownOwner
  <2>3. ShownTokens' = ShownTokens /\ ShownBearer' = ShownBearer
    BY <1>3, <1>4, <2>1 DEF ShownTokens, ShownBearer
  <2> QED BY <2>2, <2>3 DEF Shown
<1>7. CASE d \notin shared
  <2>1. CodeStatus(d) = "offered" /\ uses[d] = 0
    BY <1>5, <1>7, AtHandIsOffered
  <2>2. CodeStatus(d)' = "spent" /\ uses'[d] = 1
    BY <1>2, <1>3, <1>5, <1>7, <2>1 DEF CodeStatus
  <2>3. ShownStatus' = [ShownStatus EXCEPT ![d] = "spent"] /\ ShownOwner' = ShownOwner
    BY <1>2, <1>4, <2>2 DEF ShownStatus, ShownOwner
  <2>4. ShownTokens' = [ShownTokens EXCEPT ![d] = 1]
    BY <1>3, <1>4, <2>2 DEF ShownTokens
  <2>5. ShownBearer' = [ShownBearer EXCEPT ![d] = ShownOwner[d]]
    BY <1>3, <1>4, <2>2 DEF ShownBearer, ShownOwner
  <2>6. Grant!Redeem(d)
    BY <2>1, <2>3, <2>4, <2>5
    DEF Grant!Redeem, ShownStatus, ShownOwner, ShownTokens, ShownBearer
  <2> QED BY <2>6 DEF Grant!Next
<1> QED BY <1>6, <1>7

\* Codes that are let go of without a token are void.
LEMMA LostAreVoid ==
  ASSUME NEW lost \in SUBSET Codes,
         UNCHANGED <<grant, uses, token, shared>>,
         \A c \in lost : CodeStatus(c) = "offered" /\ CodeStatus(c)' = "void",
         \A c \in Codes \ lost : CodeStatus(c)' = CodeStatus(c)
  PROVE  Grant!Next
<1>1. ShownStatus' = [c \in Codes |-> IF c \in lost THEN "void" ELSE ShownStatus[c]]
  BY DEF ShownStatus
<1>2. ShownOwner' = ShownOwner /\ ShownTokens' = ShownTokens /\ ShownBearer' = ShownBearer
  BY DEF ShownOwner, ShownTokens, ShownBearer
<1>3. Grant!Void(lost)
  BY <1>1, <1>2 DEF Grant!Void, ShownStatus, ShownOwner, ShownTokens, ShownBearer
<1> QED BY <1>3 DEF Grant!Next

LEMMA RefuseVoids ==
  ASSUME RInv, NEW r \in Requests, Refuse(r)
  PROVE  Grant!Next \/ Shown' = Shown
<1>1. PICK d \in Codes : d = req[r].code
  BY DEF RInv, SInv, IInv, Granted, Refuse
<1>2. /\ req[r].pc = "check" /\ req' = [req EXCEPT ![r] = NoRequest]
      /\ UNCHANGED <<codes, grant, uses, token, shared>>
  BY DEF Refuse
<1>3. \A c \in Codes \ {d} : CodeStatus(c)' = CodeStatus(c)
  BY <1>1, <1>2, LetGo, SameCode
<1>4. grant[d] # Ungranted /\ AtHand(d)
  BY <1>1, <1>2, LetGo DEF RInv, SInv, IInv, Granted
<1>5. CASE d \in shared
  <2>1. CodeStatus(d)' = CodeStatus(d)
    BY <1>2, <1>4, <1>5 DEF CodeStatus
  <2> QED BY <1>2, <1>3, <2>1 DEF Shown, ShownStatus, ShownOwner, ShownTokens, ShownBearer
<1>6. CASE d \notin shared
  <2>1. CodeStatus(d) = "offered" /\ uses[d] = 0
    BY <1>4, <1>6, AtHandIsOffered
  <2>2. ~AtHand(d)'
    BY <1>1, <1>2, <1>6, LetGo
  <2>3. CodeStatus(d)' = "void"
    BY <1>2, <1>4, <1>6, <2>1, <2>2 DEF CodeStatus
  <2>4. {d} \in SUBSET Codes
    OBVIOUS
  <2> QED BY <1>2, <1>3, <2>1, <2>3, <2>4, LostAreVoid
<1> QED BY <1>5, <1>6

LEMMA RestartVoids ==
  ASSUME RInv, Restart
  PROVE  Grant!Next
<1> DEFINE lost == {c \in Codes : CodeStatus(c) = "offered"}
<1>1. /\ UNCHANGED <<grant, uses, token, shared>>
      /\ \A c \in Codes : ~AtHand(c)'
  BY DEF Restart, NoRequest, AtHand
<1>2. \A c \in lost : CodeStatus(c) = "offered" /\ CodeStatus(c)' = "void"
  BY <1>1 DEF CodeStatus
<1>3. \A c \in Codes \ lost : CodeStatus(c)' = CodeStatus(c)
  BY <1>1 DEF CodeStatus
<1>4. lost \in SUBSET Codes
  OBVIOUS
<1> HIDE DEF lost
<1> QED BY <1>1, <1>2, <1>3, <1>4, LostAreVoid

LEMMA NextShown ==
  ASSUME RInv, [Next]_vars
  PROVE  Grant!Next \/ Shown' = Shown
<1>1. ASSUME UNCHANGED <<codes, grant, req, uses, token, shared>> PROVE Shown' = Shown
  BY <1>1, NothingShows DEF AtHand
<1>2. ASSUME NEW s \in States, Authorize(s) PROVE Shown' = Shown
  BY <1>1, <1>2 DEF Authorize
<1>3. CASE Tick \/ UNCHANGED vars
  BY <1>1, <1>3 DEF Tick, vars
<1> QED
  BY <1>2, <1>3, ApproveOffers, LookupContests, DeleteShows, IssueRedeems, RefuseVoids,
     RestartVoids
  DEF Next

LEMMA NextRInv ==
  ASSUME RInv, [Next]_vars
  PROVE  RInv'
<1>1. SInv'
  BY NextInv DEF RInv, SInv
<1>2. \A c \in Codes : grant[c] # Ungranted => grant'[c] # Ungranted
  <2>1. ASSUME NEW s \in States, NEW t \in Times, NEW f \in Flows, NEW d \in Codes, Approve(s, t, f, d)
        PROVE  \A c \in Codes : grant[c] # Ungranted => grant'[c] # Ungranted
    BY <2>1 DEF Approve, RInv, SInv, IInv, TypeOK
  <2>2. CASE grant' = grant
    BY <2>2
  <2> QED
    BY <2>1, <2>2 DEF Next, Authorize, Lookup, Delete, Issue, Refuse, Restart, Tick, vars
<1>3. \A c \in shared' : c \in shared \/ c \in codes
  <2>1. ASSUME NEW f \in Flows, NEW r \in Requests, NEW d \in Codes, Lookup(r, d, f)
        PROVE  \A c \in shared' : c \in shared \/ c \in codes
    BY <2>1 DEF Lookup
  <2>2. CASE shared' = shared
    BY <2>2
  <2> QED
    BY <2>1, <2>2 DEF Next, Authorize, Approve, Delete, Issue, Refuse, Restart, Tick, vars
<1>4. shared \subseteq Codes /\ codes \subseteq Codes
  BY DEF RInv, SInv, IInv, TypeOK
<1>5. SharedGranted'
  BY <1>2, <1>3, <1>4 DEF RInv, SharedGranted, SInv, IInv, Granted
<1> QED BY <1>1, <1>5 DEF RInv

\* Whatever requests overlap, expire or die with the server: a code is offered
\* once, to one flow, and then worth one token for it or none, for good, unless
\* two requests hold it at a time (handleApprove, handleToken, ExchangeCode).
THEOREM CodesAreGrants == Spec => ImplementsCodeGrant
<1>1. Init => RInv /\ Grant!Init
  BY InitShown
<1>2. RInv /\ [Next]_vars => RInv'
  BY NextRInv
<1>3. RInv /\ [Next]_vars => [Grant!Next]_Shown
  BY NextShown
<1> QED
  BY <1>1, <1>2, <1>3, PTL
  DEF Spec, ImplementsCodeGrant, Grant!Spec, Grant!grantVars, Shown, ShownStatus, ShownOwner,
      ShownTokens, ShownBearer

=============================================================================
