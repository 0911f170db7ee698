---------------------------- MODULE UserAccounts ----------------------------
(***************************************************************************)
(* The functions that the OutSystems application calls on the user pool:    *)
(*                                                                          *)
(*   "signup"  os-signup: makes a user with a temporary password, signs in  *)
(*             with it, answers the challenge to choose a password with the *)
(*             same one, and marks the e-mail address verified              *)
(*   "reset"   os-resetpassword: a permanent password                       *)
(*   "rename"  os-changeusername: another e-mail address, verified          *)
(*                                                                          *)
(* The pool knows a user by the address.  Each call of the service is a     *)
(* step of its own; the first that fails ends the function with an error,   *)
(* and what was done before stays done.                                     *)
(***************************************************************************)
EXTENDS Naturals, FiniteSets

CONSTANTS
  Address,   \* e-mail addresses, the user names
  Password,
  MaxCalls,  \* bound: calls of the functions
  MaxFaults, \* bound: of them, calls that fail for no reason of the pool
  Nothing    \* no address, no password

ASSUME AccountAssumption ==
  MaxCalls \in Nat /\ MaxFaults \in Nat /\ Nothing \notin Address \cup Password

VARIABLES
  \* The users.  User j is the one made by call j.
  address, password,
  status,    \* "none", "temporary" (a password to be changed), "confirmed"
  verified,  \* whether the address is marked verified
  changed,   \* the other calls that changed the user
  \* The calls.
  op, name, arg,  \* what is called, for whom, with which password or address
  at,             \* the next call of the service
  session,        \* the user that the challenge is about, 0 for none
  hurt            \* calls that failed for no reason of the pool

users == <<address, password, status, verified, changed>>
request == <<op, name, arg>>
accountVars == <<users, request, at, session, hurt>>

Job == 1 .. MaxCalls
Ended == {"answered", "failed"}
Step == {"create", "auth", "respond", "verify", "set", "update", "answer"}

AccountTypeOK ==
  /\ address \in [Job -> Address \cup {Nothing}]
  /\ password \in [Job -> Password \cup {Nothing}]
  /\ status \in [Job -> {"none", "temporary", "confirmed"}]
  /\ verified \in [Job -> BOOLEAN]
  /\ changed \in [Job -> SUBSET Job]
  /\ op \in [Job -> {"none", "signup", "reset", "rename"}]
  /\ name \in [Job -> Address \cup {Nothing}]
  /\ arg \in [Job -> Address \cup Password \cup {Nothing}]
  /\ at \in [Job -> {"none"} \cup Step \cup Ended]
  /\ session \in [Job -> {0} \cup Job]
  /\ hurt \subseteq Job

AccountInit ==
  /\ address = [u \in Job |-> Nothing] /\ password = [u \in Job |-> Nothing]
  /\ status = [u \in Job |-> "none"] /\ verified = [u \in Job |-> FALSE]
  /\ changed = [u \in Job |-> {}]
  /\ op = [j \in Job |-> "none"] /\ name = [j \in Job |-> Nothing]
  /\ arg = [j \in Job |-> Nothing] /\ at = [j \in Job |-> "none"]
  /\ session = [j \in Job |-> 0] /\ hurt = {}

\* The user that an address stands for.
Known(u, a) == status[u] # "none" /\ address[u] = a
Unknown(a) == \A u \in Job : ~Known(u, a)

-----------------------------------------------------------------------------
(* The calls of the application.                                           *)

Invoked(j, o, a, x, step) ==
  /\ at[j] = "none" /\ \A i \in 1 .. (j - 1) : at[i] # "none"
  /\ op' = [op EXCEPT ![j] = o] /\ name' = [name EXCEPT ![j] = a]
  /\ arg' = [arg EXCEPT ![j] = x] /\ at' = [at EXCEPT ![j] = step]
  /\ UNCHANGED <<users, session, hurt>>

\* Sign-ups, resets and changes of an address come at any time, again and for any
\* address.
Invoke(j) ==
  \/ \E a \in Address, p \in Password : Invoked(j, "signup", a, p, "create")
  \/ \E a \in Address, p \in Password : Invoked(j, "reset", a, p, "set")
  \/ \E a, b \in Address : Invoked(j, "rename", a, b, "update")

GoesTo(j, step) == at' = [at EXCEPT ![j] = step] /\ UNCHANGED <<request, hurt>>
Fails(j) == GoesTo(j, "failed") /\ UNCHANGED <<users, session>>
Touches(j, u) == changed' = [changed EXCEPT ![u] = @ \cup {j}]

\* The service, the network or the time limit.  A call that took effect and
\* whose answer is lost is a failure before the next one.
CallFails(j) ==
  /\ at[j] \in Step /\ Cardinality(hurt) < MaxFaults
  /\ hurt' = hurt \cup {j}
  /\ at' = [at EXCEPT ![j] = "failed"]
  /\ UNCHANGED <<users, request, session>>

Answer(j) ==
  at[j] = "answer" /\ GoesTo(j, "answered") /\ UNCHANGED <<users, session>>

-----------------------------------------------------------------------------
(* os-signup.                                                              *)

\* Mutated form of CreateUser: no TemporaryPassword, the pool makes one up.
CreateUserNoPassword(j) ==
  /\ at[j] = "create" /\ Unknown(name[j])
  /\ address' = [address EXCEPT ![j] = name[j]]
  /\ status' = [status EXCEPT ![j] = "temporary"]
  /\ GoesTo(j, "auth") /\ UNCHANGED <<password, verified, changed, session>>

\* adminCreateUser: no mail is sent; a name that is in use is refused.
CreateUser(j) ==
  /\ at[j] = "create" /\ Unknown(name[j])
  /\ address' = [address EXCEPT ![j] = name[j]]
  /\ password' = [password EXCEPT ![j] = arg[j]]
  /\ status' = [status EXCEPT ![j] = "temporary"]
  /\ GoesTo(j, "auth") /\ UNCHANGED <<verified, changed, session>>

NameTaken(j) == at[j] = "create" /\ ~Unknown(name[j]) /\ Fails(j)

\* Mutated form of InitiateAuth: the challenge is not recognised.
InitiateAuthOnly(j) ==
  /\ at[j] = "auth"
  /\ \E u \in Job : Known(u, name[j]) /\ password[u] = arg[j]
  /\ GoesTo(j, "verify") /\ UNCHANGED <<users, session>>

\* adminInitiateAuth: a temporary password earns the challenge to change it.
InitiateAuth(j) ==
  /\ at[j] = "auth"
  /\ \E u \in Job :
       /\ Known(u, name[j]) /\ password[u] = arg[j]
       /\ \/ /\ status[u] = "temporary"
             /\ session' = [session EXCEPT ![j] = u] /\ GoesTo(j, "respond")
          \/ /\ status[u] = "confirmed"
             /\ GoesTo(j, "verify") /\ UNCHANGED session
  /\ UNCHANGED users

AuthRefused(j) ==
  /\ at[j] = "auth"
  /\ \A u \in Job : Known(u, name[j]) => password[u] # arg[j]
  /\ Fails(j)

\* adminRespondToAuthChallenge.  The service may or may not take the answer
\* to a challenge whose user has been confirmed since.
Respond(j) ==
  /\ at[j] = "respond" /\ Known(session[j], name[j])
  /\ password' = [password EXCEPT ![session[j]] = arg[j]]
  /\ status' = [status EXCEPT ![session[j]] = "confirmed"]
  /\ Touches(j, session[j])
  /\ GoesTo(j, "verify") /\ UNCHANGED <<address, verified, session>>

ChallengeRefused(j) ==
  /\ at[j] = "respond"
  /\ ~Known(session[j], name[j]) \/ status[session[j]] = "confirmed"
  /\ Fails(j)

\* adminUpdateUserAttributes: of whoever has the address now.
MarkVerified(j) ==
  /\ at[j] = "verify"
  /\ \E u \in Job :
       /\ Known(u, name[j])
       /\ verified' = [verified EXCEPT ![u] = TRUE] /\ Touches(j, u)
  /\ GoesTo(j, "answer") /\ UNCHANGED <<address, password, status, session>>

-----------------------------------------------------------------------------
(* os-resetpassword and os-changeusername, one call of the service each.   *)

\* Mutated form of SetPassword: the two fields of the event are swapped.
SetPasswordSwapped(j) ==
  /\ at[j] = "set"
  /\ \E u \in Job :
       /\ Known(u, name[j])
       /\ password' = [password EXCEPT ![u] = name[j]]
       /\ status' = [status EXCEPT ![u] = "confirmed"]
       /\ Touches(j, u)
  /\ GoesTo(j, "answer") /\ UNCHANGED <<address, verified, session>>

SetPassword(j) ==
  /\ at[j] = "set"
  /\ \E u \in Job :
       /\ Known(u, name[j])
       /\ password' = [password EXCEPT ![u] = arg[j]]
       /\ status' = [status EXCEPT ![u] = "confirmed"]
       /\ Touches(j, u)
  /\ GoesTo(j, "answer") /\ UNCHANGED <<address, verified, session>>

ChangeUserName(j) ==
  /\ at[j] = "update"
  /\ \E u \in Job :
       /\ Known(u, name[j]) /\ \A v \in Job \ {u} : ~Known(v, arg[j])
       /\ address' = [address EXCEPT ![u] = arg[j]]
       /\ verified' = [verified EXCEPT ![u] = TRUE]
       /\ Touches(j, u)
  /\ GoesTo(j, "answer") /\ UNCHANGED <<password, status, session>>

AliasTaken(j) ==
  /\ at[j] = "update"
  /\ \E u \in Job : Known(u, name[j]) /\ \E v \in Job \ {u} : Known(v, arg[j])
  /\ Fails(j)

UserMissing(j) ==
  at[j] \in {"verify", "set", "update"} /\ Unknown(name[j]) /\ Fails(j)

-----------------------------------------------------------------------------

SignUp(j) ==
  \/ CreateUser(j) \/ NameTaken(j) \/ InitiateAuth(j) \/ AuthRefused(j)
  \/ Respond(j) \/ ChallengeRefused(j) \/ MarkVerified(j)

AccountStep(j) ==
  \/ Invoke(j) \/ SignUp(j) \/ SetPassword(j) \/ ChangeUserName(j)
  \/ AliasTaken(j) \/ UserMissing(j) \/ Answer(j) \/ CallFails(j)
=============================================================================
