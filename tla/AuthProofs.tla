----------------------------- MODULE AuthProofs -----------------------------
(***************************************************************************)
(* What the auth service keeps for any number of calls and any clock.      *)
(***************************************************************************)
EXTENDS Auth, TLAPS

(* A registration between drawing its id and saving. *)
Registering(c) == call[c].pc \in {"drawn", "read"}

(* The strengthening: an id that two calls have is shared; every id in the  *)
(* table was drawn by a registration that has saved, so one still to save   *)
(* writes over nobody's row but of a shared id; and a row that login has    *)
(* read is still there unless its id is shared.                             *)
NoIdYet == \A c \in Calls : call[c].pc \in {"start", "looked"} => call[c].id = None
DrawnIds == \A c, d \in Calls :
  c # d /\ call[c].id # None /\ call[c].id = call[d].id => call[c].id \in collided
RowsWereDrawn == \A u \in users : \E c \in Calls : call[c].pc = "done" /\ call[c].id = u.id
HasData == \A c \in Calls :
  /\ Registering(c) => call[c].id \in Ids
  /\ call[c].pc = "looked" \/ Registering(c)
       => call[c].email \in Emails /\ call[c].password \in Passwords
RowsRead == \A c \in Calls :
  call[c].pc = "compare" => /\ call[c].row \in User
                            /\ call[c].row \in users \/ call[c].row.id \in collided
IInv == AuthTypeOK /\ NoIdYet /\ DrawnIds /\ RowsWereDrawn /\ HasData /\ RowsRead
          /\ OneAccountPerEmail /\ TokenNamesItsAccount

(* A step of one call leaves the others as they are, and its own id. *)
Moved(c) ==
  /\ call' \in [Calls -> Call]
  /\ \A d \in Calls \ {c} : call'[d] = call[d]
KeepsId(c) == Moved(c) /\ call'[c].id = call[c].id

(* What a call that only moves on, and touches no table, keeps. *)
LEMMA MoveKeeps ==
  ASSUME IInv, NEW c \in Calls, KeepsId(c), UNCHANGED <<users, collided>>,
         call[c].pc # "done",
         call'[c].pc \in {"start", "looked"} => call[c].pc \in {"start", "looked"}
  PROVE  NoIdYet' /\ DrawnIds' /\ RowsWereDrawn'
<1>1. \A d \in Calls : call'[d].id = call[d].id
  BY DEF KeepsId, Moved
<1>2. NoIdYet'
  BY <1>1 DEF IInv, NoIdYet, KeepsId, Moved
<1>3. DrawnIds'
  BY <1>1 DEF IInv, DrawnIds
<1>4. RowsWereDrawn'
  BY <1>1 DEF IInv, RowsWereDrawn, KeepsId, Moved
<1> QED BY <1>2, <1>3, <1>4

LEMMA LookUpKeeps == ASSUME IInv, NEW c \in Calls, LookUp(c) PROVE IInv'
<1>1. PICK email \in Emails, password \in Passwords :
        IF WithEmail(email) # {} THEN Return(c)
        ELSE call' = [call EXCEPT ![c].pc = "looked", ![c].email = email,
                                  ![c].password = password]
  BY DEF LookUp
<1>2. call[c] \in Call /\ call \in [Calls -> Call] /\ call[c].pc = "start"
  BY DEF IInv, AuthTypeOK, LookUp
<1>3. /\ KeepsId(c) /\ call'[c].pc \in {"looked", "done"}
      /\ call'[c].pc = "looked" => call'[c].email \in Emails /\ call'[c].password \in Passwords
  <2>1. CASE WithEmail(email) # {}
    <3>1. call' = [call EXCEPT ![c].pc = "done"]
      BY <1>1, <2>1 DEF Return
    <3> QED BY <1>2, <3>1 DEF Call, PCs, KeepsId, Moved
  <2>2. CASE WithEmail(email) = {}
    BY <1>1, <1>2, <2>2 DEF Call, PCs, KeepsId, Moved
  <2> QED BY <2>1, <2>2
<1>4. UNCHANGED <<ms, users, tokens, collided>>
  BY DEF LookUp
<1>5. NoIdYet' /\ DrawnIds' /\ RowsWereDrawn'
  BY <1>2, <1>3, <1>4, MoveKeeps
<1>6. HasData' /\ RowsRead'
  BY <1>3, <1>4 DEF IInv, HasData, RowsRead, Registering, KeepsId, Moved
<1> QED
  BY <1>3, <1>4, <1>5, <1>6
  DEF IInv, AuthTypeOK, KeepsId, Moved, OneAccountPerEmail, TokenNamesItsAccount

LEMMA DrawIdKeeps == ASSUME IInv, NEW c \in Calls, DrawId(c) PROVE IInv'
<1>1. call[c] \in Call /\ call \in [Calls -> Call] /\ call[c].pc = "looked" /\ ms \in Ids
  BY DEF IInv, AuthTypeOK, DrawId
<1>2. /\ Moved(c) /\ call'[c].id = ms /\ call'[c].pc = "drawn"
      /\ call'[c].email = call[c].email /\ call'[c].password = call[c].password
  BY <1>1 DEF DrawId, Call, PCs, Moved
<1>3. UNCHANGED <<ms, users, tokens>> /\ collided \subseteq collided' /\ collided' \subseteq Ids
  BY <1>1 DEF DrawId, IInv, AuthTypeOK
<1>4. NoIdYet'
  BY <1>2 DEF IInv, NoIdYet, Moved
<1>5. \A d \in Calls : call[d].id = ms => ms \in collided'
  BY DEF DrawId
<1>6. DrawnIds'
  BY <1>2, <1>3, <1>5 DEF IInv, DrawnIds, Moved
<1>7. RowsWereDrawn'
  BY <1>1, <1>2, <1>3 DEF IInv, RowsWereDrawn, Moved
<1>8. HasData'
  BY <1>1, <1>2 DEF IInv, HasData, Registering, Moved
<1>9. RowsRead'
  BY <1>2, <1>3 DEF IInv, RowsRead, Moved
<1> QED
  BY <1>2, <1>3, <1>4, <1>6, <1>7, <1>8, <1>9
  DEF IInv, AuthTypeOK, Moved, OneAccountPerEmail, TokenNamesItsAccount

LEMMA SelectByIdKeeps == ASSUME IInv, NEW c \in Calls, SelectById(c) PROVE IInv'
<1>1. call[c] \in Call /\ call \in [Calls -> Call] /\ call[c].pc = "drawn"
  BY DEF IInv, AuthTypeOK, SelectById
<1>2. /\ KeepsId(c) /\ call'[c].pc = "read"
      /\ call'[c].email = call[c].email /\ call'[c].password = call[c].password
  BY <1>1 DEF SelectById, Call, PCs, KeepsId, Moved
<1>3. UNCHANGED <<ms, users, tokens, collided>>
  BY DEF SelectById
<1>4. NoIdYet' /\ DrawnIds' /\ RowsWereDrawn'
  BY <1>1, <1>2, <1>3, MoveKeeps
<1>5. HasData' /\ RowsRead'
  BY <1>1, <1>2, <1>3 DEF IInv, HasData, RowsRead, Registering, KeepsId, Moved
<1> QED
  BY <1>2, <1>3, <1>4, <1>5
  DEF IInv, AuthTypeOK, KeepsId, Moved, OneAccountPerEmail, TokenNamesItsAccount

(* The row that a registration writes replaces nobody's but of a shared id. *)
LEMMA SaveKeeps == ASSUME IInv, NEW c \in Calls, Save(c) PROVE IInv'
<1> DEFINE id == call[c].id
<1>1. call[c] \in Call /\ call \in [Calls -> Call] /\ call[c].pc = "read"
  BY DEF IInv, AuthTypeOK, Save
<1>2. KeepsId(c) /\ call'[c].pc = "done"
  BY <1>1 DEF Save, Return, Call, PCs, KeepsId, Moved
<1>3. UNCHANGED <<ms, collided>>
  BY DEF Save
<1>4. NewUser(c) \in User
  BY <1>1 DEF IInv, HasData, Registering, NewUser, User
<1>5. \A u \in users : u.id = id => id \in collided
  <2> SUFFICES ASSUME NEW u \in users, u.id = id PROVE id \in collided
    OBVIOUS
  <2>1. PICK d \in Calls : call[d].pc = "done" /\ call[d].id = id
    BY DEF IInv, RowsWereDrawn
  <2>2. d # c /\ id # None
    BY <1>1, <2>1, AuthAssumption DEF IInv, HasData, Registering, Ids
  <2> QED BY <2>1, <2>2 DEF IInv, DrawnIds
<1>6. \/ UNCHANGED <<users, tokens>>
      \/ Accepts(c) /\ users' = (users \ WithId(id)) \cup {NewUser(c)}
                    /\ tokens' = tokens \cup {NewUser(c)}
  BY DEF Save
<1>7. NewUser(c).id = id /\ NewUser(c).email = call[c].email
  BY DEF NewUser
<1>8. \A u \in users : u \in users' \/ u.id \in collided
  BY <1>5, <1>6 DEF WithId
<1>9. AuthTypeOK'
  BY <1>2, <1>3, <1>4, <1>6 DEF IInv, AuthTypeOK, KeepsId, Moved
<1>10. NoIdYet' /\ DrawnIds'
  BY <1>2, <1>3 DEF IInv, NoIdYet, DrawnIds, KeepsId, Moved
<1>11. RowsWereDrawn'
  <2> SUFFICES ASSUME NEW u \in users'
               PROVE  \E d \in Calls : call'[d].pc = "done" /\ call'[d].id = u.id
    BY DEF RowsWereDrawn
  <2>1. CASE u \in users
    BY <2>1, <1>1, <1>2 DEF IInv, RowsWereDrawn, KeepsId, Moved
  <2>2. CASE u = NewUser(c)
    BY <2>2, <1>2, <1>7 DEF KeepsId
  <2> QED BY <2>1, <2>2, <1>6
<1>12. HasData'
  BY <1>1, <1>2 DEF IInv, HasData, Registering, KeepsId, Moved
<1>13. RowsRead'
  BY <1>2, <1>3, <1>8 DEF IInv, RowsRead, KeepsId, Moved
<1>14. OneAccountPerEmail'
  <2>1. CASE UNCHANGED <<users, tokens>>
    BY <2>1 DEF IInv, OneAccountPerEmail
  <2>2. CASE /\ Accepts(c) /\ users' = (users \ WithId(id)) \cup {NewUser(c)}
    BY <2>2, <1>7 DEF IInv, OneAccountPerEmail, Accepts, WithId, WithEmail
  <2> QED BY <2>1, <2>2, <1>6
<1>15. TokenNamesItsAccount'
  BY <1>3, <1>6, <1>8 DEF IInv, TokenNamesItsAccount
<1> QED
  BY <1>9, <1>10, <1>11, <1>12, <1>13, <1>14, <1>15 DEF IInv

LEMMA FindUserKeeps == ASSUME IInv, NEW c \in Calls, FindUser(c) PROVE IInv'
<1>1. PICK email \in Emails, password \in Passwords :
        IF WithEmail(email) = {} THEN Return(c)
        ELSE \E u \in WithEmail(email) :
               call' = [call EXCEPT ![c].pc = "compare", ![c].email = email,
                                    ![c].password = password, ![c].row = u]
  BY DEF FindUser
<1>2. call[c] \in Call /\ call \in [Calls -> Call] /\ call[c].pc = "start" /\ users \subseteq User
  BY DEF IInv, AuthTypeOK, FindUser
<1>3. UNCHANGED <<ms, users, tokens, collided>>
  BY DEF FindUser
<1>4. /\ KeepsId(c)
      /\ call'[c].pc = "done" \/ (call'[c].pc = "compare" /\ call'[c].row \in users)
  <2>1. CASE WithEmail(email) = {}
    <3>1. call' = [call EXCEPT ![c].pc = "done"]
      BY <1>1, <2>1 DEF Return
    <3>2. KeepsId(c) /\ call'[c].pc = "done"
      BY <1>2, <3>1 DEF Call, PCs, KeepsId, Moved
    <3> QED BY <3>2
  <2>2. CASE WithEmail(email) # {}
    <3>1. PICK u \in WithEmail(email) :
            call' = [call EXCEPT ![c].pc = "compare", ![c].email = email,
                                 ![c].password = password, ![c].row = u]
      BY <1>1, <2>2
    <3>2. u \in users /\ u \in User
      BY <1>2 DEF WithEmail
    <3> QED BY <1>2, <3>1, <3>2 DEF Call, PCs, KeepsId, Moved
  <2> QED BY <2>1, <2>2
<1>5. NoIdYet' /\ DrawnIds' /\ RowsWereDrawn'
  BY <1>2, <1>3, <1>4, MoveKeeps
<1>6. HasData' /\ RowsRead'
  BY <1>2, <1>3, <1>4 DEF IInv, HasData, RowsRead, Registering, KeepsId, Moved
<1> QED
  BY <1>3, <1>4, <1>5, <1>6
  DEF IInv, AuthTypeOK, KeepsId, Moved, OneAccountPerEmail, TokenNamesItsAccount

LEMMA CompareKeeps == ASSUME IInv, NEW c \in Calls, Compare(c) PROVE IInv'
<1>1. call[c] \in Call /\ call \in [Calls -> Call] /\ call[c].pc = "compare"
  BY DEF IInv, AuthTypeOK, Compare
<1>2. KeepsId(c) /\ call'[c].pc = "done"
  BY <1>1 DEF Compare, Return, Call, PCs, KeepsId, Moved
<1>3. UNCHANGED <<ms, users, collided>> /\ tokens' \subseteq tokens \cup {call[c].row}
  BY DEF Compare
<1>4. call[c].row \in User /\ (call[c].row \in users \/ call[c].row.id \in collided)
  BY <1>1 DEF IInv, RowsRead
<1>5. NoIdYet' /\ DrawnIds' /\ RowsWereDrawn'
  BY <1>1, <1>2, <1>3, MoveKeeps
<1>6. HasData' /\ RowsRead'
  BY <1>2, <1>3 DEF IInv, HasData, RowsRead, Registering, KeepsId, Moved
<1>7. AuthTypeOK'
  BY <1>2, <1>3, <1>4 DEF IInv, AuthTypeOK, KeepsId, Moved
<1>8. OneAccountPerEmail' /\ TokenNamesItsAccount'
  BY <1>3, <1>4 DEF IInv, OneAccountPerEmail, TokenNamesItsAccount
<1> QED BY <1>5, <1>6, <1>7, <1>8 DEF IInv

LEMMA TickKeeps == ASSUME IInv, Tick PROVE IInv'
<1>1. ms' \in Ids
  BY AuthAssumption DEF IInv, AuthTypeOK, Tick, Ids
<1>2. UNCHANGED <<users, call, tokens, collided>>
  BY DEF Tick
<1> QED
  BY <1>1, <1>2 DEF IInv, AuthTypeOK, NoIdYet, DrawnIds, RowsWereDrawn, HasData, RowsRead,
                    Registering, OneAccountPerEmail, TokenNamesItsAccount

LEMMA InitIInv == AuthInit => IInv
<1> SUFFICES ASSUME AuthInit PROVE IInv
  OBVIOUS
<1>1. \A c \in Calls : call[c] = NewCall
  BY DEF AuthInit
<1>2. NewCall \in Call
  BY DEF NewCall, Call, PCs
<1>3. AuthTypeOK
  BY <1>2, AuthAssumption DEF AuthInit, AuthTypeOK, Ids
<1> QED
  BY <1>1, <1>3 DEF IInv, AuthInit, NewCall, NoIdYet, DrawnIds, RowsWereDrawn, HasData, RowsRead,
                    Registering, OneAccountPerEmail, TokenNamesItsAccount

LEMMA NextKeepsIInv == IInv /\ [AuthNext]_authVars => IInv'
<1> SUFFICES ASSUME IInv, [AuthNext]_authVars PROVE IInv'
  OBVIOUS
<1>1. CASE Tick
  BY <1>1, TickKeeps
<1>2. CASE \E c \in Calls : \/ LookUp(c) \/ DrawId(c) \/ SelectById(c) \/ Save(c)
                            \/ FindUser(c) \/ Compare(c)
  BY <1>2, LookUpKeeps, DrawIdKeeps, SelectByIdKeeps, SaveKeeps, FindUserKeeps, CompareKeeps
<1>3. CASE UNCHANGED authVars
  BY <1>3 DEF authVars, IInv, AuthTypeOK, NoIdYet, DrawnIds, RowsWereDrawn, HasData, RowsRead,
              Registering, OneAccountPerEmail, TokenNamesItsAccount
<1> QED BY <1>1, <1>2, <1>3 DEF AuthNext

THEOREM IInvHolds == AuthSpec => []IInv
<1> QED BY InitIInv, NextKeepsIInv, PTL DEF AuthSpec

(* register and login keep to the types of the table and of the calls. *)
THEOREM AuthTypeCorrect == AuthSpec => []AuthTypeOK
<1>1. IInv => AuthTypeOK
  BY DEF IInv
<1> QED BY IInvHolds, <1>1, PTL

(* register: the unique column keeps one account per email, though the      *)
(* lookup is long past when the row is saved.                               *)
THEOREM OneAccount == AuthSpec => []OneAccountPerEmail
<1>1. IInv => OneAccountPerEmail
  BY DEF IInv
<1> QED BY IInvHolds, <1>1, PTL

(* register and login: only an id drawn twice takes an account from a token. *)
THEOREM TokensNameAccounts == AuthSpec => []TokenNamesItsAccount
<1>1. IInv => TokenNamesItsAccount
  BY DEF IInv
<1> QED BY IInvHolds, <1>1, PTL
=============================================================================
