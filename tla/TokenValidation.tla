--------------------------- MODULE TokenValidation ---------------------------
(***************************************************************************)
(* os-validation: decides whether a token is one the user pool gave to the  *)
(* application.  The module downloads the pool's public keys when an        *)
(* execution environment starts and keeps them as long as it lives; the     *)
(* pool replaces its keys meanwhile.                                        *)
(***************************************************************************)
EXTENDS Naturals, FiniteSets

CONSTANTS
  Container,  \* execution environments
  Life,       \* how long a token is valid
  MaxTime,    \* bound: ticks of the clock
  MaxKey,     \* bound: keys of the pool
  MaxTokens,  \* bound: tokens given out
  Holder      \* users a token can be about

ASSUME TokenAssumption ==
  Life \in Nat /\ MaxTime \in Nat /\ MaxKey \in Nat \ {0} /\ MaxTokens \in Nat

VARIABLES
  time,
  oldest, newest,  \* the keys that are published, the newest one in use
  tokens,          \* tokens given out
  keys             \* the keys each environment holds, none if it is not there

tokenVars == <<time, oldest, newest, tokens, keys>>

Key == 1 .. MaxKey
published == oldest .. newest
Token == [user : Holder, key : Key, exp : Nat]

\* What is presented: an ID token of this client, an access token, an ID token
\* of another client, a text whose signature is not the pool's.
Form == {"id", "access", "other client", "altered"}

TokenTypeOK ==
  /\ time \in 0 .. MaxTime
  /\ newest \in Key /\ oldest \in 1 .. newest
  /\ tokens \subseteq Token
  /\ keys \in [Container -> SUBSET Key]

TokenInit ==
  /\ time = 0 /\ oldest = 1 /\ newest = 1 /\ tokens = {}
  /\ keys = [c \in Container |-> {}]

-----------------------------------------------------------------------------
(* The user pool and the clock.                                            *)

Tick ==
  /\ time < MaxTime /\ time' = time + 1
  /\ UNCHANGED <<oldest, newest, tokens, keys>>

\* A user who can sign in gets a token.
Issue(u) ==
  /\ Cardinality(tokens) < MaxTokens
  /\ tokens' = tokens \cup {[user |-> u, key |-> newest, exp |-> time + Life]}
  /\ UNCHANGED <<time, oldest, newest, keys>>

Rotate ==
  /\ newest < MaxKey /\ newest' = newest + 1
  /\ UNCHANGED <<time, oldest, tokens, keys>>

\* A key is published as long as a token that it signed is valid.
Withdraw ==
  /\ oldest < newest
  /\ \A t \in tokens : t.key = oldest => t.exp < time
  /\ oldest' = oldest + 1
  /\ UNCHANGED <<time, newest, tokens, keys>>

-----------------------------------------------------------------------------
(* The function.                                                           *)

ColdStart(c) ==
  /\ keys[c] = {} /\ keys' = [keys EXCEPT ![c] = published]
  /\ UNCHANGED <<time, oldest, newest, tokens>>

Recycle(c) ==
  /\ keys[c] # {} /\ keys' = [keys EXCEPT ![c] = {}]
  /\ UNCHANGED <<time, oldest, newest, tokens>>

\* Mutated form of Judged: without the comparison with exp.
JudgedForEver(c, t, form) ==
  CASE t.key \notin keys[c] -> "unknown key"
    [] t.key \in keys[c] /\ form = "altered" -> "bad signature"
    [] OTHER -> CASE form = "access"       -> "no audience"
                  [] form = "other client" -> "other audience"
                  [] OTHER                 -> "accepted"

\* The checks of the handler, in its order; it changes nothing.  An access token
\* names no audience: the handler ends with an error.
Judged(c, t, form) ==
  CASE t.key \notin keys[c] -> "unknown key"
    [] t.key \in keys[c] /\ form = "altered" -> "bad signature"
    [] t.key \in keys[c] /\ form # "altered" /\ time > t.exp -> "expired"
    [] OTHER -> CASE form = "access"       -> "no audience"
                  [] form = "other client" -> "other audience"
                  [] OTHER                 -> "accepted"
=============================================================================
