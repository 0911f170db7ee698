--------------------------- MODULE UserPoolProofs ---------------------------
(***************************************************************************)
(* Proofs about UserPool, for every number of calls, failures, addresses,   *)
(* passwords, keys, tokens and execution environments.                      *)
(*                                                                          *)
(* A call of os-signup works on the user that its name stands for, not on   *)
(* the user it made.  The invariant says when these are the same: names are *)
(* unique (OneEach), and as long as no other call has touched the user, the *)
(* sign-up is where the user's state says (OnTrack).  For the tokens it     *)
(* says what an environment's keys are (Windows): those that were published *)
(* at some earlier time, so that a key it lacks is either newer or signed   *)
(* nothing that is still valid.                                             *)
(***************************************************************************)
EXTENDS UserPool, TLAPS

-----------------------------------------------------------------------------
(* The inductive invariant                                                  *)

\* What a call has in hand for its next step.
Called ==
  \A j \in Job :
    /\ at[j] \in {"none", "create"} => status[j] = "none"
    /\ at[j] = "create" => op[j] = "signup"
    /\ op[j] = "signup" =>
         /\ at[j] \notin {"none", "set", "update"}
         /\ at[j] \notin {"create", "failed"} => status[j] # "none"
    /\ at[j] \in Step => name[j] \in Address
    /\ at[j] \in {"create", "auth", "respond", "set"} => arg[j] \in Password
    /\ at[j] = "update" => arg[j] \in Address

\* An address stands for one user.
OneEach ==
  \A u, v \in Job :
    status[u] # "none" /\ status[v] # "none" /\ address[u] = address[v] => u = v

\* A sign-up whose user nobody else has touched.
OnTrack ==
  \A j \in Job : op[j] = "signup" /\ status[j] # "none" /\ Untouched(j) =>
    /\ address[j] = name[j] /\ password[j] = arg[j]
    /\ \/ at[j] = "auth" /\ status[j] = "temporary"
       \/ at[j] = "respond" /\ status[j] = "temporary" /\ session[j] = j
       \/ at[j] = "verify" /\ status[j] = "confirmed"
       \/ at[j] \in {"answer", "answered"} /\ status[j] = "confirmed" /\ verified[j]
       \/ at[j] = "failed" /\ j \in hurt

\* The tokens that are out, and the keys of an environment.
Windows ==
  /\ \A t \in tokens :
       /\ status[t.user] = "confirmed" /\ t.key <= newest
       /\ t.key < oldest => t.exp < time
  /\ \A c \in Container : keys[c] # {} =>
       \E lo \in 1 .. oldest, hi \in 1 .. newest : keys[c] = lo .. hi

IInv == TypeOK /\ Called /\ OneEach /\ OnTrack /\ Windows

\* The steps that leave the users and the calls alone.
TokenStep ==
  \/ \E u \in Job : SignIn(u)
  \/ \E c \in Container : ColdStart(c) \/ Recycle(c)
  \/ Tick \/ Rotate \/ Withdraw

-----------------------------------------------------------------------------
(* The users and the calls                                                  *)

\* A step of a function leaves the users and calls well typed.
LEMMA AccountTypes ==
  ASSUME AccountTypeOK, Called, NEW j \in Job, AccountStep(j)
  PROVE  AccountTypeOK'
<1> USE AccountAssumption DEF AccountTypeOK, Job, Step, Ended, users, request, Known, Unknown, GoesTo, Fails, Touches
<1>1. CASE Invoke(j)
  <2> PICK o \in {"signup", "reset", "rename"}, a \in Address, x \in Address \cup Password,
           s \in {"create", "set", "update"} : Invoked(j, o, a, x, s)
    BY <1>1 DEF Invoke
  <2> QED BY DEF Invoked
<1>2. CASE SignUp(j)
  <2>1. CASE CreateUser(j)
    BY <2>1 DEF CreateUser, Called
  <2>2. CASE NameTaken(j)
    BY <2>2 DEF NameTaken
  <2>3. CASE InitiateAuth(j)
    <3>1. UNCHANGED <<users, request, hurt>>
      BY <2>3 DEF InitiateAuth
    <3>2. at' \in [Job -> {"none"} \cup Step \cup Ended]
      BY <2>3 DEF InitiateAuth
    <3>3. session' \in [Job -> {0} \cup Job]
      <4> PICK u \in Job : session' = [session EXCEPT ![j] = u] \/ UNCHANGED session
        BY <2>3 DEF InitiateAuth
      <4> QED OBVIOUS
    <3> QED BY <3>1, <3>2, <3>3
  <2>4. CASE AuthRefused(j)
    BY <2>4 DEF AuthRefused
  <2>5. CASE Respond(j)
    BY <2>5 DEF Respond, Called
  <2>6. CASE ChallengeRefused(j)
    BY <2>6 DEF ChallengeRefused
  <2>7. CASE MarkVerified(j)
    BY <2>7 DEF MarkVerified
  <2> QED BY <1>2, <2>1, <2>2, <2>3, <2>4, <2>5, <2>6, <2>7 DEF SignUp
<1>3. CASE SetPassword(j)
  BY <1>3 DEF SetPassword, Called
<1>4. CASE ChangeUserName(j)
  BY <1>4 DEF ChangeUserName, Called
<1>5. CASE AliasTaken(j) \/ UserMissing(j)
  BY <1>5 DEF AliasTaken, UserMissing
<1>6. CASE Answer(j)
  BY <1>6 DEF Answer
<1>7. CASE CallFails(j)
  BY <1>7 DEF CallFails
<1> QED BY <1>1, <1>2, <1>3, <1>4, <1>5, <1>6, <1>7 DEF AccountStep

\* Calls keep what they need, and addresses stay unique.
LEMMA AccountNames ==
  ASSUME AccountTypeOK, Called, OneEach, NEW j \in Job, AccountStep(j)
  PROVE  Called' /\ OneEach'
<1> USE DEF AccountTypeOK, Called, OneEach, Step, Ended, users, request, Known, Unknown, GoesTo, Fails, Touches
<1>1. CASE Invoke(j)
  BY <1>1 DEF Invoke, Invoked
<1>2. CASE SignUp(j)
  <2>1. CASE CreateUser(j)
    BY <2>1 DEF CreateUser
  <2>2. CASE NameTaken(j)
    BY <2>2 DEF NameTaken
  <2>3. CASE InitiateAuth(j)
    BY <2>3 DEF InitiateAuth
  <2>4. CASE AuthRefused(j)
    BY <2>4 DEF AuthRefused
  <2>5. CASE Respond(j)
    BY <2>5 DEF Respond
  <2>6. CASE ChallengeRefused(j)
    BY <2>6 DEF ChallengeRefused
  <2>7. CASE MarkVerified(j)
    BY <2>7 DEF MarkVerified
  <2> QED BY <1>2, <2>1, <2>2, <2>3, <2>4, <2>5, <2>6, <2>7 DEF SignUp
<1>3. CASE SetPassword(j)
  BY <1>3 DEF SetPassword
<1>4. CASE ChangeUserName(j)
  BY <1>4 DEF ChangeUserName
<1>5. CASE AliasTaken(j) \/ UserMissing(j)
  BY <1>5 DEF AliasTaken, UserMissing
<1>6. CASE Answer(j)
  BY <1>6 DEF Answer
<1>7. CASE CallFails(j)
  BY <1>7 DEF CallFails
<1> QED BY <1>1, <1>2, <1>3, <1>4, <1>5, <1>6, <1>7 DEF AccountStep

\* A step of one sign-up, or of another call, leaves every sign-up on its track:
\* refusals and strangers' users are possible only after another call's touch.
LEMMA AccountTracks ==
  ASSUME AccountTypeOK, Called, OneEach, OnTrack, NEW j \in Job, AccountStep(j)
  PROVE  OnTrack'
<1> USE DEF AccountTypeOK, Called, OneEach, OnTrack, Untouched, Step, Ended, users, request, Known, Unknown, GoesTo, Fails, Touches
<1>1. CASE Invoke(j)
  BY <1>1 DEF Invoke, Invoked
<1>2. CASE SignUp(j)
  <2>1. CASE CreateUser(j)
    BY <2>1 DEF CreateUser
  <2>2. CASE NameTaken(j)
    BY <2>2 DEF NameTaken
  <2>3. CASE InitiateAuth(j)
    BY <2>3 DEF InitiateAuth
  <2>4. CASE AuthRefused(j)
    BY <2>4 DEF AuthRefused
  <2>5. CASE Respond(j)
    BY <2>5 DEF Respond
  <2>6. CASE ChallengeRefused(j)
    BY <2>6 DEF ChallengeRefused
  <2>7. CASE MarkVerified(j)
    BY <2>7 DEF MarkVerified
  <2> QED BY <1>2, <2>1, <2>2, <2>3, <2>4, <2>5, <2>6, <2>7 DEF SignUp
<1>3. CASE SetPassword(j)
  <2> PICK u \in Job : /\ Known(u, name[j])
                       /\ password' = [password EXCEPT ![u] = arg[j]]
                       /\ status' = [status EXCEPT ![u] = "confirmed"] /\ Touches(j, u)
    BY <1>3 DEF SetPassword
  <2> SUFFICES ASSUME NEW k \in Job, op'[k] = "signup", status'[k] # "none", Untouched(k)'
               PROVE  /\ address'[k] = name'[k] /\ password'[k] = arg'[k]
                      /\ \/ at'[k] = "auth" /\ status'[k] = "temporary"
                         \/ at'[k] = "respond" /\ status'[k] = "temporary" /\ session'[k] = k
                         \/ at'[k] = "verify" /\ status'[k] = "confirmed"
                         \/ at'[k] \in {"answer", "answered"} /\ status'[k] = "confirmed" /\ verified'[k]
                         \/ at'[k] = "failed" /\ k \in hurt'
    OBVIOUS
  <2> QED BY <1>3 DEF SetPassword
<1>4. CASE ChangeUserName(j)
  <2> PICK u \in Job : /\ Known(u, name[j]) /\ \A v \in Job \ {u} : ~Known(v, arg[j])
                       /\ address' = [address EXCEPT ![u] = arg[j]]
                       /\ verified' = [verified EXCEPT ![u] = TRUE] /\ Touches(j, u)
    BY <1>4 DEF ChangeUserName
  <2> SUFFICES ASSUME NEW k \in Job, op'[k] = "signup", status'[k] # "none", Untouched(k)'
               PROVE  /\ address'[k] = name'[k] /\ password'[k] = arg'[k]
                      /\ \/ at'[k] = "auth" /\ status'[k] = "temporary"
                         \/ at'[k] = "respond" /\ status'[k] = "temporary" /\ session'[k] = k
                         \/ at'[k] = "verify" /\ status'[k] = "confirmed"
                         \/ at'[k] \in {"answer", "answered"} /\ status'[k] = "confirmed" /\ verified'[k]
                         \/ at'[k] = "failed" /\ k \in hurt'
    OBVIOUS
  <2>0. /\ at[j] = "update" /\ at' = [at EXCEPT ![j] = "answer"]
        /\ UNCHANGED <<password, status, session, request, hurt>>
    BY <1>4 DEF ChangeUserName
  <2>1. k # j
    BY <2>0
  <2>2. k # u
    BY <2>1
  <2>3. address'[k] = address[k] /\ verified'[k] = verified[k] /\ changed'[k] = changed[k]
    BY <2>2
  <2> QED BY <2>0, <2>1, <2>3
<1>5. CASE AliasTaken(j) \/ UserMissing(j)
  BY <1>5 DEF AliasTaken, UserMissing
<1>6. CASE Answer(j)
  BY <1>6 DEF Answer
<1>7. CASE CallFails(j)
  BY <1>7 DEF CallFails
<1> QED BY <1>1, <1>2, <1>3, <1>4, <1>5, <1>6, <1>7 DEF AccountStep

\* Who is confirmed stays so.
LEMMA StaysConfirmed ==
  ASSUME AccountTypeOK, Called, NEW j \in Job, AccountStep(j)
  PROVE  \A u \in Job : status[u] = "confirmed" => status'[u] = "confirmed"
<1> USE DEF AccountTypeOK, users, GoesTo, Fails
<1>1. CASE Invoke(j)
  BY <1>1 DEF Invoke, Invoked
<1>2. CASE SignUp(j)
  BY <1>2 DEF SignUp, CreateUser, NameTaken, InitiateAuth, AuthRefused, Respond, ChallengeRefused,
              MarkVerified, Called
<1>3. CASE SetPassword(j) \/ ChangeUserName(j)
  BY <1>3 DEF SetPassword, ChangeUserName
<1>4. CASE AliasTaken(j) \/ UserMissing(j) \/ Answer(j) \/ CallFails(j)
  BY <1>4 DEF AliasTaken, UserMissing, Answer, CallFails
<1> QED BY <1>1, <1>2, <1>3, <1>4 DEF AccountStep

-----------------------------------------------------------------------------
(* The tokens and the keys                                                  *)

\* Keys and tokens stay well typed, and environments keep windows.
LEMMA TokenWindows ==
  ASSUME TokenTypeOK, Windows, TokenStep, UNCHANGED accountVars
  PROVE  TokenTypeOK' /\ Windows'
<1> USE TokenAssumption, HolderAssumption
    DEF TokenTypeOK, Windows, Key, Token, published, accountVars, users
<1>1. ASSUME NEW u \in Job, SignIn(u) PROVE TokenTypeOK' /\ Windows'
  BY <1>1 DEF SignIn, Issue
<1>2. ASSUME NEW c \in Container, ColdStart(c) PROVE TokenTypeOK' /\ Windows'
  <2>1. TokenTypeOK'
    BY <1>2 DEF ColdStart
  <2>2. ASSUME NEW d \in Container, keys'[d] # {}
        PROVE  \E lo \in 1 .. oldest, hi \in 1 .. newest : keys'[d] = lo .. hi
    BY <1>2, <2>2 DEF ColdStart
  <2> QED BY <1>2, <2>1, <2>2 DEF ColdStart
<1>3. ASSUME NEW c \in Container, Recycle(c) PROVE TokenTypeOK' /\ Windows'
  BY <1>3 DEF Recycle
<1>4. CASE Tick
  BY <1>4 DEF Tick
<1>5. CASE Rotate
  BY <1>5 DEF Rotate
<1>6. CASE Withdraw
  BY <1>6 DEF Withdraw
<1> QED BY <1>1, <1>2, <1>3, <1>4, <1>5, <1>6 DEF TokenStep

-----------------------------------------------------------------------------
(* The theorems                                                             *)

\* The invariant holds in every state.
THEOREM Invariance == Spec => []IInv
<1>1. Init => IInv
  BY AccountAssumption, TokenAssumption
  DEF Init, AccountInit, TokenInit, IInv, TypeOK, AccountTypeOK, TokenTypeOK, Called, OneEach,
      OnTrack, Windows, Step, Ended, Key, Job
<1>2. IInv /\ [Next]_vars => IInv'
  <2> SUFFICES ASSUME IInv, [Next]_vars PROVE IInv'
    OBVIOUS
  <2>1. ASSUME NEW j \in Job, AccountStep(j), UNCHANGED tokenVars PROVE IInv'
    <3>1. AccountTypeOK' /\ Called' /\ OneEach' /\ OnTrack'
      BY <2>1, AccountTypes, AccountNames, AccountTracks DEF IInv, TypeOK
    <3>2. \A u \in Job : status[u] = "confirmed" => status'[u] = "confirmed"
      BY <2>1, StaysConfirmed DEF IInv, TypeOK
    <3>3. TokenTypeOK' /\ Windows'
      BY <2>1, <3>2, HolderAssumption DEF IInv, TypeOK, TokenTypeOK, Windows, tokenVars, Key, Token
    <3> QED BY <3>1, <3>3 DEF IInv, TypeOK
  <2>2. ASSUME TokenStep, UNCHANGED accountVars PROVE IInv'
    <3>1. TokenTypeOK' /\ Windows'
      BY <2>2, TokenWindows DEF IInv, TypeOK
    <3>2. AccountTypeOK' /\ Called' /\ OneEach' /\ OnTrack'
      BY <2>2 DEF IInv, TypeOK, accountVars, users, request, AccountTypeOK, Called, OneEach, OnTrack,
                  Untouched
    <3> QED BY <3>1, <3>2 DEF IInv, TypeOK
  <2>3. CASE UNCHANGED vars
    BY <2>3 DEF vars, IInv, TypeOK, accountVars, tokenVars, users, request, AccountTypeOK, TokenTypeOK,
                Called, OneEach, OnTrack, Untouched, Windows
  <2> QED BY <2>1, <2>2, <2>3 DEF Next, TokenStep
<1> QED BY <1>1, <1>2, PTL DEF Spec

\* Users, calls, keys and tokens are well typed.
THEOREM TypeCorrect == Spec => []TypeOK
<1>1. IInv => TypeOK
  BY DEF IInv
<1> QED BY <1>1, Invariance, PTL

\* Whoever is told that the sign-up worked can use it, whatever other calls do to
\* users of the same name in between.
THEOREM SignUpIsUsable == Spec => []SignedUpUsable
<1>1. IInv => SignedUpUsable
  BY DEF IInv, TypeOK, AccountTypeOK, OnTrack, SignedUpUsable, Called
<1> QED BY <1>1, Invariance, PTL

\* A sign-up leaves half a user only by a failure or another call's doing.
THEOREM LeftoverCaused == Spec => []LeftoverHasCause
<1>1. IInv => LeftoverHasCause
  BY DEF IInv, OnTrack, LeftoverHasCause
<1> QED BY <1>1, Invariance, PTL

\* However old its keys, an environment accepts only what is valid now and
\* refuses of that only what a newer key signed.
THEOREM TokensAreJudged == Spec => []TokensJudged
<1>1. IInv => TokensJudged
  <2> SUFFICES ASSUME IInv, NEW c \in Container, NEW t \in tokens, NEW form \in Form, keys[c] # {}
               PROVE  /\ Judged(c, t, form) = "accepted" =>
                           /\ form = "id" /\ time <= t.exp
                           /\ t.key \in published /\ status[t.user] = "confirmed"
                      /\ Judged(c, t, form) # "accepted" /\ form = "id" /\ time <= t.exp =>
                           \A k \in keys[c] : k < t.key
    BY DEF TokensJudged
  <2>1. /\ time \in Nat /\ t.exp \in Nat /\ t.key \in Nat /\ oldest \in Nat /\ newest \in Nat
        /\ status[t.user] = "confirmed" /\ t.key <= newest
        /\ t.key < oldest => t.exp < time
    BY TokenAssumption DEF IInv, TypeOK, TokenTypeOK, Windows, Token, Key
  <2>2. PICK lo \in 1 .. oldest, hi \in 1 .. newest : keys[c] = lo .. hi
    BY DEF IInv, Windows
  <2>3. CASE t.key \notin keys[c]
    <3>1. Judged(c, t, form) = "unknown key"
      BY <2>3 DEF Judged
    <3>2. ASSUME time <= t.exp, NEW k \in keys[c] PROVE k < t.key
      BY <2>1, <2>2, <2>3, <3>2
    <3> QED BY <3>1, <3>2
  <2>4. CASE t.key \in keys[c]
    <3>1. Judged(c, t, form) = "accepted" <=> form = "id" /\ ~(time > t.exp)
      BY <2>4 DEF Judged, Form
    <3> QED BY <2>1, <2>4, <3>1 DEF published
  <2> QED BY <2>3, <2>4
<1> QED BY <1>1, Invariance, PTL
=============================================================================
