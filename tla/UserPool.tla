------------------------------ MODULE UserPool ------------------------------
(***************************************************************************)
(* The users of the OutSystems application: the functions that make and     *)
(* change them (UserAccounts), and the one that checks the tokens they get  *)
(* (TokenValidation).                                                       *)
(***************************************************************************)
EXTENDS UserAccounts, TokenValidation

ASSUME HolderAssumption == Holder = Job  \* users are numbered like the calls

vars == <<accountVars, tokenVars>>

\* The pool gives a token to a user who has a permanent password.
SignIn(u) == status[u] = "confirmed" /\ Issue(u)

Init == AccountInit /\ TokenInit

Next ==
  \/ \E j \in Job : AccountStep(j) /\ UNCHANGED tokenVars
  \/ \E u \in Job : SignIn(u) /\ UNCHANGED accountVars
  \/ \E c \in Container : (ColdStart(c) \/ Recycle(c)) /\ UNCHANGED accountVars
  \/ (Tick \/ Rotate \/ Withdraw) /\ UNCHANGED accountVars

Spec == Init /\ [][Next]_vars

-----------------------------------------------------------------------------

\* Users, calls, keys and tokens are what they are said to be.
TypeOK == AccountTypeOK /\ TokenTypeOK

\* Calls that name the same address interleave; a user that no other call has
\* changed is Untouched.
Untouched(j) == changed[j] \subseteq {j}

\* The four calls of os-signup/index.js each find the user by name, and somebody
\* else may have made, renamed or reset a user of that name between two of them:
\* still, who is told that the sign-up worked can sign in with the name and the
\* password given, and the address is marked verified, unless another call has
\* changed that very user.
SignedUpUsable ==
  \A j \in Job : op[j] = "signup" /\ at[j] = "answered" /\ Untouched(j) =>
    /\ status[j] = "confirmed" /\ verified[j]
    /\ address[j] = name[j] /\ password[j] = arg[j]

\* A sign-up that made its user and yet ends with an error leaves a user whose
\* name no later sign-up can take; only a failure of the service, or another
\* call on that very user in the meantime, brings this about.
LeftoverHasCause ==
  \A j \in Job : op[j] = "signup" /\ at[j] = "failed" /\ status[j] # "none" =>
                   j \in hurt \/ ~Untouched(j)

\* The keys that an environment downloaded on its cold start grow old: still,
\* what it accepts is an unexpired ID token of a confirmed user, signed with a
\* key that is published; and it turns such a token down only when the key is
\* newer than all those it holds.
TokensJudged ==
  \A c \in Container, t \in tokens, form \in Form :
    LET o == Judged(c, t, form) IN
    keys[c] # {} =>
      /\ o = "accepted" =>
           /\ form = "id" /\ time <= t.exp
           /\ t.key \in published /\ status[t.user] = "confirmed"
      /\ o # "accepted" /\ form = "id" /\ time <= t.exp =>
           \A k \in keys[c] : k < t.key
=============================================================================
