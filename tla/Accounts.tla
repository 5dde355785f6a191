------------------------------ MODULE Accounts ------------------------------
(***************************************************************************)
(* Users and their tokens (routes/auth.rs, SignupBody and SigninBody of    *)
(* dto/mod.rs, table users, auth/jwt.rs) with the engine's account entries *)
(* (handlers/account.rs) and the gateway's reset (routes/admin.rs), which  *)
(* deletes the users while their tokens live on: a token is checked by its *)
(* signature and age alone.                                                *)
(*                                                                         *)
(* A username is known by what trim() leaves of it, whether it had blanks  *)
(* around it, and whether what is left passes the checks of SignupBody.    *)
(* Passwords are left out: a sign-in with a wrong one changes nothing.     *)
(***************************************************************************)
EXTENDS Integers, FiniteSets, Functions

CONSTANTS Cores,       \* what trim() can leave of a username
          Wellformed,  \* those with 3 to 32 letters, digits and underscores
          MaxId,       \* bound on the ids drawn from the sequence of users.id
          MaxResets,   \* bound on the resets
          MaxUsd       \* bound on an account

ASSUME AccountsAssumption ==
  Wellformed \subseteq Cores /\ MaxId \in Nat /\ MaxResets \in Nat /\ MaxUsd \in Nat

Names == [core : Cores, padded : BOOLEAN]
Ids == 1..MaxId
NoUsers == [id \in {} |-> {}]

VARIABLES users,    \* table users: id -> username
          serial,   \* the last id drawn from its sequence
          signups,  \* the ids of signups that wait for the engine
          issued,   \* the tokens issued, [sub, name]; name is who signed in
          usd,      \* the engine's usd_balance: id -> available
          brought,  \* history: id -> what its holder brought in since the last reset
          reset,    \* "idle" or "sending": the users are deleted, the engine is next
          resets

accountVars == <<users, serial, signups, issued, usd, brought, reset, resets>>

AccountsInit ==
  /\ users = NoUsers
  /\ serial = 0
  /\ signups = {}
  /\ issued = {}
  /\ usd = [id \in {} |-> 0]
  /\ brought = [id \in Ids |-> 0]
  /\ reset = "idle"
  /\ resets = 0

-----------------------------------------------------------------------------
\* SignupBody::validate looks at the trimmed name.
ValidSignup(name) == name.core \in Wellformed

\* INSERT INTO users: the raw name, which is UNIQUE.  The sequence advances
\* even when the insert is refused.
Signup(name) ==
  /\ ValidSignup(name)
  /\ serial < MaxId
  /\ serial' = serial + 1
  /\ IF name \in Range(users)
     THEN UNCHANGED <<users, signups>>
     ELSE /\ users' = [id \in DOMAIN users \cup {serial + 1} |->
                         IF id = serial + 1 THEN name ELSE users[id]]
          /\ signups' = signups \cup {serial + 1}
  /\ UNCHANGED <<issued, usd, brought, reset, resets>>

\* An engine entry that is made when it is first used: entry(id).or_default().
OrDefault(balances, id) ==
  [i \in DOMAIN balances \cup {id} |-> IF i \in DOMAIN balances THEN balances[i] ELSE 0]

\* handle_signup.
EngineSignup(id) ==
  /\ id \in signups
  /\ signups' = signups \ {id}
  /\ usd' = OrDefault(usd, id)
  /\ UNCHANGED <<users, serial, issued, brought, reset, resets>>

\* The XADD of a signup fails: the user stays, without an entry in the engine,
\* and the name is taken.
SignupLost(id) ==
  /\ id \in signups
  /\ signups' = signups \ {id}
  /\ UNCHANGED <<users, serial, issued, usd, brought, reset, resets>>

\* signin: the user of that very name gets a token.
Signin(name) ==
  /\ \E id \in DOMAIN users :
       /\ users[id] = name
       /\ issued' = issued \cup {[sub |-> id, name |-> name]}
  /\ UNCHANGED <<users, serial, signups, usd, brought, reset, resets>>

\* Mutant of HandleOnramp: only an account that signup has made is credited.
HandleOnrampKnown(token) ==
  /\ brought[token.sub] < MaxUsd
  /\ brought' = [brought EXCEPT ![token.sub] = @ + 1]
  /\ usd' = IF token.sub \in DOMAIN usd THEN [usd EXCEPT ![token.sub] = @ + 1] ELSE usd
  /\ UNCHANGED <<users, serial, signups, issued, reset, resets>>

\* The holder of a token brings in money: the id of the token is credited.
HandleOnramp(token) ==
  /\ brought[token.sub] < MaxUsd
  /\ brought' = [brought EXCEPT ![token.sub] = @ + 1]
  /\ usd' = [OrDefault(usd, token.sub) EXCEPT ![token.sub] = @ + 1]
  /\ UNCHANGED <<users, serial, signups, issued, reset, resets>>

\* Mutant of DeleteUsers: TRUNCATE ... RESTART IDENTITY.
DeleteUsersRestart ==
  /\ reset = "idle" /\ resets < MaxResets
  /\ users' = NoUsers
  /\ serial' = 0
  /\ reset' = "sending"
  /\ resets' = resets + 1
  /\ UNCHANGED <<signups, issued, usd, brought>>

\* reset of the gateway: DELETE FROM users leaves the sequence as it is.
DeleteUsers ==
  /\ reset = "idle" /\ resets < MaxResets
  /\ users' = NoUsers
  /\ reset' = "sending"
  /\ resets' = resets + 1
  /\ UNCHANGED <<serial, signups, issued, usd, brought>>

\* handle_reset, or the reset never gets to the engine.
EngineReset ==
  /\ reset = "sending"
  /\ reset' = "idle"
  /\ \/ usd' = [id \in {} |-> 0] /\ brought' = [id \in Ids |-> 0]
     \/ UNCHANGED <<usd, brought>>
  /\ UNCHANGED <<users, serial, signups, issued, resets>>

AccountsNext ==
  \/ \E name \in Names : Signup(name) \/ Signin(name)
  \/ \E id \in signups : EngineSignup(id) \/ SignupLost(id)
  \/ \E token \in issued : HandleOnramp(token)
  \/ DeleteUsers \/ EngineReset

-----------------------------------------------------------------------------
\* Properties.

\* A token never comes to name another user than the one it was issued to,
\* though it outlives its user for up to a day (auth.rs 109) and a reset
\* deletes users: ids are never given out twice.
TokenNamesOneUser ==
  \A t \in issued : t.sub \in DOMAIN users => users[t.sub] = t.name

\* Whoever has a token has in the engine what was brought in with it, even when
\* the engine's half of the signup was lost or a reset wiped the account: an
\* entry that is missing stands for one of zero.
HoldsWhatWasBrought ==
  \A id \in Ids : brought[id] = IF id \in DOMAIN usd THEN usd[id] ELSE 0
=============================================================================
