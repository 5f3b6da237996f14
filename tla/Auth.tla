-------------------------------- MODULE Auth --------------------------------
(***************************************************************************)
(* The auth service: register looks the email up, draws the millisecond as *)
(* the id, waits for the hash and saves; login looks up, waits for the     *)
(* comparison and signs.  Calls interleave at every await.                 *)
(***************************************************************************)
EXTENDS Naturals

CONSTANTS
  Emails, Passwords,
  Calls,    \* the calls to register and login that are made
  MaxMs,    \* bound on the clock, for TLC
  None

ASSUME AuthAssumption == MaxMs \in Nat /\ None \notin 0 .. MaxMs

VARIABLES
  ms,        \* Date.now()
  users,     \* the table of users
  call,      \* call[c]: a call and what it has read
  tokens,    \* history: the user each signed token names, and the password given
  collided   \* history: ids drawn by more than one registration

authVars == <<ms, users, call, tokens, collided>>

Ids == 0 .. MaxMs
User == [id : Ids, email : Emails, password : Passwords]

PCs == {"start", "looked", "drawn", "read", "compare", "done"}
Call == [pc : PCs, email : Emails \cup {None}, password : Passwords \cup {None},
         id : Ids \cup {None}, exists : BOOLEAN, row : User \cup {None}]
NewCall == [pc |-> "start", email |-> None, password |-> None,
            id |-> None, exists |-> FALSE, row |-> None]

(* findOneBy *)
WithEmail(email) == {u \in users : u.email = email}
WithId(id) == {u \in users : u.id = id}

Return(c) == call' = [call EXCEPT ![c].pc = "done"]

-----------------------------------------------------------------------------
(***************************************************************************)
(* register                                                                *)
(***************************************************************************)
LookUpUndrawn(c) ==                        \* variant: the id is not drawn
  /\ call[c].pc = "start"
  /\ \E email \in Emails, password \in Passwords :
       call' = [call EXCEPT ![c].pc = "drawn", ![c].email = email, ![c].password = password]
  /\ UNCHANGED <<ms, users, tokens, collided>>

LookUp(c) ==
  /\ call[c].pc = "start"
  /\ \E email \in Emails, password \in Passwords :
       IF WithEmail(email) # {} THEN Return(c)
       ELSE call' = [call EXCEPT ![c].pc = "looked", ![c].email = email,
                                 ![c].password = password]
  /\ UNCHANGED <<ms, users, tokens, collided>>

DrawId(c) ==
  /\ call[c].pc = "looked"
  /\ call' = [call EXCEPT ![c].pc = "drawn", ![c].id = ms]
  /\ collided' = IF \E d \in Calls : call[d].id = ms THEN collided \cup {ms} ELSE collided
  /\ UNCHANGED <<ms, users, tokens>>

(* After the hash, save first looks for a row with the id. *)
SelectById(c) ==
  /\ call[c].pc = "drawn"
  /\ call' = [call EXCEPT ![c].pc = "read", ![c].exists = (WithId(call[c].id) # {})]
  /\ UNCHANGED <<ms, users, tokens, collided>>

NewUser(c) == [id |-> call[c].id, email |-> call[c].email, password |-> call[c].password]

Accepts(c) ==
  /\ \A u \in WithEmail(call[c].email) : u.id = call[c].id
  /\ ~call[c].exists => WithId(call[c].id) = {}

AcceptsAnyEmail(c) ==                      \* variant: the column is not unique
  /\ call[c].pc = "read"
  /\ IF ~call[c].exists => WithId(call[c].id) = {}
     THEN /\ users' = (users \ WithId(call[c].id)) \cup {NewUser(c)}
          /\ tokens' = tokens \cup {NewUser(c)}
     ELSE UNCHANGED <<users, tokens>>
  /\ Return(c)
  /\ UNCHANGED <<ms, collided>>

SaveByEmail(c) ==                          \* variant: the row of the email is replaced
  /\ call[c].pc = "read"
  /\ users' = (users \ (WithId(call[c].id) \cup WithEmail(call[c].email))) \cup {NewUser(c)}
  /\ tokens' = tokens \cup {NewUser(c)}
  /\ Return(c)
  /\ UNCHANGED <<ms, collided>>

(* Then it updates the row, or inserts one; key and unique email are the    *)
(* database's to check, and a refusal is an error to the caller.            *)
Save(c) ==
  /\ call[c].pc = "read"
  /\ IF Accepts(c)
     THEN /\ users' = (users \ WithId(call[c].id)) \cup {NewUser(c)}
          /\ tokens' = tokens \cup {NewUser(c)}
     ELSE UNCHANGED <<users, tokens>>
  /\ Return(c)
  /\ UNCHANGED <<ms, collided>>

(***************************************************************************)
(* login: the row that was read is compared and named in the token.        *)
(***************************************************************************)
FindUser(c) ==
  /\ call[c].pc = "start"
  /\ \E email \in Emails, password \in Passwords :
       IF WithEmail(email) = {} THEN Return(c)
       ELSE \E u \in WithEmail(email) :
              call' = [call EXCEPT ![c].pc = "compare", ![c].email = email,
                                   ![c].password = password, ![c].row = u]
  /\ UNCHANGED <<ms, users, tokens, collided>>

Compare(c) ==
  /\ call[c].pc = "compare"
  /\ tokens' = IF call[c].password = call[c].row.password
               THEN tokens \cup {call[c].row} ELSE tokens
  /\ Return(c)
  /\ UNCHANGED <<ms, users, collided>>

Tick ==
  /\ ms < MaxMs /\ ms' = ms + 1
  /\ UNCHANGED <<users, call, tokens, collided>>

-----------------------------------------------------------------------------
AuthInit ==
  /\ ms = 0
  /\ users = {} /\ tokens = {} /\ collided = {}
  /\ call = [c \in Calls |-> NewCall]

AuthNext ==
  \/ Tick
  \/ \E c \in Calls : \/ LookUp(c) \/ DrawId(c) \/ SelectById(c) \/ Save(c)
                      \/ FindUser(c) \/ Compare(c)

AuthSpec == AuthInit /\ [][AuthNext]_authVars

-----------------------------------------------------------------------------
(* Every variable stays in its domain. *)
AuthTypeOK ==
  /\ ms \in Ids
  /\ users \subseteq User /\ tokens \subseteq User /\ collided \subseteq Ids
  /\ call \in [Calls -> Call]

(* However registrations interleave between looking the email up and saving *)
(* the row, an email has one account, and an id one row.                    *)
OneAccountPerEmail ==
  \A u, v \in users : u.email = v.email \/ u.id = v.id => u = v

(* A token names an account that is there, with the email and the password  *)
(* that were given for it, unless two registrations drew their id in the    *)
(* same millisecond: then the later one may have taken the row over.        *)
TokenNamesItsAccount == \A t \in tokens : t \in users \/ t.id \in collided
=============================================================================
