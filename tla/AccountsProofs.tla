---------------------------- MODULE AccountsProofs ----------------------------
(***************************************************************************)
(* For any number of requests, people and refresh tokens: the invariant of *)
(* Accounts is inductive, and with it assignments name managers and a      *)
(* rotated token is spent when the one that replaces it is created.        *)
(***************************************************************************)
EXTENDS Accounts, TLAPS

(* What no step of a request takes away from the others: a canteen, a      *)
(* manager's account, and that a token is over, unless it is the one the   *)
(* request creates.                                                        *)
Kept(s) ==
  /\ canteen => canteen'
  /\ \A e \in Emails : account[e] = "CANTEEN_MANAGER" => account'[e] = "CANTEEN_MANAGER"
  /\ \A t \in Tokens :
       ~ refreshTokens[t].usable /\ t # req[s].next => ~ refreshTokens'[t].usable

rows == <<adminVars, account, refreshTokens, aborts>>

(* The rows keep their types and account for the assignments. *)
RowsFine == RowsOK /\ AssignmentsNameManagers

(* The names a request may move to: those it has, or new ones. *)
NamesOf(s, r) ==
  \/ r.next \in {None, req[s].next} /\ r.presented \in {None, req[s].presented}
  \/ /\ r.next \in FreshTokens
     /\ \/ r.presented = None
        \/ r.presented \in Tokens /\ refreshTokens[r.presented].usable

LEMMA IdleType == Idle \in Request
  BY DEF Idle, Request, PC

LEMMA NoTokenType == NoToken \in RefreshTokenRow /\ NoToken.usable = FALSE
  BY DEF RefreshTokenRow, NoToken

LEMMA ReadTypes ==
  ASSUME TypeOK, NEW s \in Slots
  PROVE  /\ req[s] \in Request
         /\ req[s].next \in Tokens \cup {None}
         /\ req[s].presented \in Tokens \cup {None}
         /\ req[s].email \in Emails \cup {None}
  BY DEF TypeOK, Request

(* A usable token belongs to somebody. *)
LEMMA UsableNamesEmail ==
  ASSUME RowsOK, NEW t \in Tokens, refreshTokens[t].usable
  PROVE  refreshTokens[t].email \in Emails
  BY DEF RowsOK

LEMMA InitInvariant == Init => IInv
<1> SUFFICES ASSUME Init PROVE IInv
  OBVIOUS
<1>1. \A s \in Slots : req[s] = Idle
  BY DEF Init
<1>2. RowsOK
  <2>1. refreshTokens \in [Tokens -> RefreshTokenRow]
    BY NoTokenType DEF Init
  <2>2. account \in [Emails -> RoleCode \cup {"NO ROW"}]
    BY DEF Init
  <2>3. aborts \in 0..MaxAborts
    <3>1. MaxAborts \in Nat
      BY AccountsAssumption
    <3>2. aborts = 0
      BY DEF Init
    <3> QED
      BY <3>1, <3>2
  <2>4. \A t \in Tokens : refreshTokens[t].usable = FALSE
    BY NoTokenType DEF Init
  <2> QED
    BY <2>1, <2>2, <2>3, <2>4 DEF Init, RowsOK
<1>3. TypeOK
  BY <1>2, IdleType DEF Init, TypeOK
<1>4. \A s \in Slots : Backed(s)
  <2>1. Idle.pc = "idle" /\ Idle.next = None
    BY DEF Idle
  <2> QED
    BY <1>1, <2>1 DEF Backed, Creating, Assigning, At
<1>5. NamesApart
  BY <1>1 DEF NamesApart, Idle
<1> QED
  BY <1>3, <1>4, <1>5 DEF Init, IInv, AssignmentsNameManagers

------------------------------------------------------------------------------
(* A request that does not move stays backed. *)
LEMMA OthersBacked ==
  ASSUME IInv, NEW s \in Slots, NEW o \in Slots, o # s, req'[o] = req[o], Kept(s)
  PROVE  Backed(o)'
<1>1. /\ req[o].presented \in Tokens \cup {None}
      /\ req[o].next \in Tokens \cup {None}
      /\ Backed(o)
  BY ReadTypes DEF IInv
<1>2. req[o].presented \in Tokens => req[o].presented # req[s].next
  BY AccountsAssumption DEF IInv, NamesApart
<1>3. req[o].next \in Tokens => req[o].next # req[s].next
  BY AccountsAssumption DEF IInv, NamesApart
<1> QED
  BY <1>1, <1>2, <1>3 DEF Backed, Kept, At, Creating, Assigning

(* The names stay apart when one request moves to names it may have. *)
LEMMA NamesStayApart ==
  ASSUME IInv, NEW s \in Slots, NEW r \in Request,
         req' = [req EXCEPT ![s] = r], NamesOf(s, r)
  PROVE  NamesApart'
<1>1. req'[s] = r /\ \A o \in Slots \ {s} : req'[o] = req[o]
  BY DEF IInv, TypeOK
<1> SUFFICES ASSUME NEW a \in Slots, NEW b \in Slots, req'[a].next # None
             PROVE  /\ req'[b].presented # req'[a].next
                    /\ b # a => req'[b].next # req'[a].next
  BY DEF NamesApart
<1>2. \A o \in Slots : req[o].next # None => ~ refreshTokens[req[o].next].usable
  BY DEF IInv, Backed
<1>3. \A t \in FreshTokens : ~ refreshTokens[t].usable /\ t # None
  BY AccountsAssumption DEF FreshTokens
<1>4. \A t \in FreshTokens, o \in Slots : t # req[o].presented /\ t # req[o].next
  BY DEF FreshTokens
<1>5. CASE r.next \in {None, req[s].next} /\ r.presented \in {None, req[s].presented}
  BY <1>1, <1>5 DEF IInv, NamesApart
<1>6. CASE r.next \in FreshTokens /\ r.presented = None
  BY <1>1, <1>3, <1>4, <1>6 DEF IInv, NamesApart
<1>7. CASE r.next \in FreshTokens /\ refreshTokens[r.presented].usable
  BY <1>1, <1>2, <1>3, <1>4, <1>7 DEF IInv, NamesApart
<1> QED
  BY <1>5, <1>6, <1>7 DEF NamesOf

(* One request moves and accounts for itself and the rows. *)
LEMMA OneMoves ==
  ASSUME IInv, NEW s \in Slots, NEW r \in Request, req' = [req EXCEPT ![s] = r],
         RowsFine', Kept(s), NamesOf(s, r), Backed(s)'
  PROVE  IInv'
<1>1. \A o \in Slots \ {s} : req'[o] = req[o]
  BY DEF IInv, TypeOK
<1>2. \A o \in Slots : Backed(o)'
  BY <1>1, OthersBacked
<1>3. TypeOK'
  BY DEF IInv, TypeOK, RowsFine
<1> QED
  BY <1>2, <1>3, NamesStayApart DEF IInv, RowsFine

(* A request is answered. *)
LEMMA Responds ==
  ASSUME IInv, NEW s \in Slots, Respond(s), RowsFine', Kept(s)
  PROVE  IInv'
<1>1. req' = [req EXCEPT ![s] = Idle]
  BY DEF Respond, Become
<1>2. req'[s] = Idle
  BY <1>1 DEF IInv, TypeOK
<1>3. Backed(s)'
  BY <1>2 DEF Backed, Idle, At, Creating, Assigning
<1>4. NamesOf(s, Idle)
  BY DEF NamesOf, Idle
<1> QED
  BY <1>1, <1>3, <1>4, IdleType, OneMoves

(* A request goes on with what it has. *)
LEMMA GoesOn ==
  ASSUME IInv, NEW s \in Slots, NEW pc \in PC, Goto(s, pc), RowsFine', Kept(s),
         req'[s] = [req[s] EXCEPT !.pc = pc] => Backed(s)'
  PROVE  IInv'
<1> DEFINE r == [req[s] EXCEPT !.pc = pc]
<1>1. r \in Request /\ r.next = req[s].next /\ r.presented = req[s].presented
  BY DEF IInv, TypeOK, Request
<1>2. req' = [req EXCEPT ![s] = r]
  BY DEF Goto, Become
<1>3. req'[s] = r
  BY <1>2 DEF IInv, TypeOK
<1>4. NamesOf(s, r)
  BY <1>1 DEF NamesOf
<1> QED
  BY <1>1, <1>2, <1>3, <1>4, OneMoves

(* A step that writes no row. *)
LEMMA RowsStill ==
  ASSUME IInv, NEW s \in Slots, UNCHANGED rows
  PROVE  RowsFine' /\ Kept(s)
  BY DEF IInv, TypeOK, RowsFine, RowsOK, AssignmentsNameManagers, Kept, rows, adminVars

------------------------------------------------------------------------------
(* AuthService *)

(* createRaw adds a user and changes none. *)
LEMMA AccountCreated ==
  ASSUME IInv, NEW s \in Slots, NEW role \in RoleCode, NEW pc, createRaw(s, role, pc),
         UNCHANGED <<adminVars, refreshTokens, aborts>>
  PROVE  RowsFine' /\ Kept(s)
<1>1. account' \in [Emails -> RoleCode \cup {"NO ROW"}]
  BY DEF createRaw, IInv, TypeOK, RowsOK
<1>2. \A e \in Emails : account[e] = "CANTEEN_MANAGER" => account'[e] = "CANTEEN_MANAGER"
  BY DEF createRaw, IInv, TypeOK, RowsOK
<1>3. RowsOK'
  BY <1>1 DEF IInv, TypeOK, RowsOK, adminVars
<1>4. AssignmentsNameManagers'
  BY <1>2 DEF IInv, TypeOK, RowsOK, AssignmentsNameManagers, adminVars
<1> QED
  BY <1>2, <1>3, <1>4 DEF RowsFine, Kept, adminVars

LEMMA RegisterSteps ==
  ASSUME IInv, NEW s \in Slots,
         RegisterStarts(s) \/ RegisterChecksEmail(s) \/ RegisterSavesAccount(s)
  PROVE  IInv'
<1>1. CASE RegisterStarts(s)
  <2>1. PICK e \in Emails, t \in FreshTokens :
          req' = [req EXCEPT ![s] = [Idle EXCEPT !.pc = "register.email", !.email = e, !.next = t]]
    BY <1>1 DEF RegisterStarts, Become
  <2> DEFINE r == [Idle EXCEPT !.pc = "register.email", !.email = e, !.next = t]
  <2>2. t \in Tokens /\ ~ refreshTokens[t].usable
    BY DEF FreshTokens
  <2>3. r \in Request
    BY <2>2 DEF Idle, Request, PC
  <2>4. req'[s] = r
    BY <2>1 DEF IInv, TypeOK
  <2>5. Backed(s)'
    BY <1>1, <2>2, <2>4 DEF RegisterStarts, Backed, Idle, At, Creating, Assigning
  <2>6. NamesOf(s, r)
    BY DEF NamesOf, Idle
  <2> QED
    BY <1>1, <2>1, <2>3, <2>5, <2>6, RowsStill, OneMoves DEF RegisterStarts, rows
<1>2. CASE RegisterChecksEmail(s)
  <2>1. RowsFine' /\ Kept(s)
    BY <1>2, RowsStill DEF RegisterChecksEmail, rows
  <2>2. CASE Respond(s)
    BY <2>1, <2>2, Responds
  <2>3. CASE Goto(s, "register.account")
    <3>1. req'[s] = [req[s] EXCEPT !.pc = "register.account"] => Backed(s)'
      BY <1>2 DEF RegisterChecksEmail, IInv, TypeOK, Request, Backed, At, Creating, Assigning
    <3>2. "register.account" \in PC
      BY DEF PC
    <3> QED
      BY <2>1, <2>3, <3>1, <3>2, GoesOn
  <2> QED
    BY <1>2, <2>2, <2>3 DEF RegisterChecksEmail, EmailIsNew
<1>3. CASE RegisterSavesAccount(s)
  <2>1. RowsFine' /\ Kept(s)
    BY <1>3, AccountCreated DEF RegisterSavesAccount, RoleCode
  <2>2. CASE Respond(s)
    BY <2>1, <2>2, Responds
  <2>3. CASE Goto(s, "session.save")
    <3>1. req'[s] = [req[s] EXCEPT !.pc = "session.save"] => Backed(s)'
      BY <1>3 DEF RegisterSavesAccount, IInv, TypeOK, Request, Backed, At, Creating, Assigning
    <3>2. "session.save" \in PC
      BY DEF PC
    <3> QED
      BY <2>1, <2>3, <3>1, <3>2, GoesOn
  <2> QED
    BY <1>3, <2>2, <2>3 DEF RegisterSavesAccount, createRaw
<1> QED
  BY <1>1, <1>2, <1>3

(* What is left of a session to create: a row of the request's email.      *)
LEMMA TokenSaved ==
  ASSUME IInv, NEW s \in Slots, SavesToken(s),
         req[s].email \in Emails, req[s].next \in Tokens,
         UNCHANGED <<adminVars, account, aborts>>
  PROVE  RowsFine' /\ Kept(s)
<1>1. [email |-> req[s].email, usable |-> TRUE] \in RefreshTokenRow
  BY DEF RefreshTokenRow
<1>2. refreshTokens' \in [Tokens -> RefreshTokenRow]
  BY <1>1 DEF SavesToken, IInv, TypeOK, RowsOK
<1>3. \A t \in Tokens : t # req[s].next => refreshTokens'[t] = refreshTokens[t]
  BY DEF SavesToken, IInv, TypeOK, RowsOK
<1>4. RowsOK'
  <2>1. refreshTokens'[req[s].next].email \in Emails
    BY DEF SavesToken, IInv, TypeOK, RowsOK
  <2> QED
    BY <1>2, <1>3, <2>1 DEF IInv, TypeOK, RowsOK, adminVars
<1>5. AssignmentsNameManagers'
  BY DEF IInv, AssignmentsNameManagers, adminVars
<1> QED
  BY <1>3, <1>4, <1>5 DEF RowsFine, Kept, adminVars

LEMMA LoginSteps ==
  ASSUME IInv, NEW s \in Slots,
         LoginStarts(s) \/ LoginChecksCollege(s) \/ SessionSaved(s)
  PROVE  IInv'
<1>1. CASE LoginStarts(s)
  <2>1. PICK e \in Emails, t \in FreshTokens :
          req' = [req EXCEPT ![s] = [Idle EXCEPT !.pc = "login.college", !.email = e, !.next = t]]
    BY <1>1 DEF LoginStarts, Become
  <2> DEFINE r == [Idle EXCEPT !.pc = "login.college", !.email = e, !.next = t]
  <2>2. t \in Tokens /\ ~ refreshTokens[t].usable
    BY DEF FreshTokens
  <2>3. r \in Request
    BY <2>2 DEF Idle, Request, PC
  <2>4. req'[s] = r
    BY <2>1 DEF IInv, TypeOK
  <2>5. Backed(s)'
    BY <1>1, <2>2, <2>4 DEF LoginStarts, Backed, Idle, At, Creating, Assigning
  <2>6. NamesOf(s, r)
    BY DEF NamesOf, Idle
  <2> QED
    BY <1>1, <2>1, <2>3, <2>5, <2>6, RowsStill, OneMoves DEF LoginStarts, rows
<1>2. CASE LoginChecksCollege(s)
  <2>1. RowsFine' /\ Kept(s)
    BY <1>2, RowsStill DEF LoginChecksCollege, rows
  <2>2. CASE Respond(s)
    BY <2>1, <2>2, Responds
  <2>3. CASE Goto(s, "session.save")
    <3>1. req'[s] = [req[s] EXCEPT !.pc = "session.save"] => Backed(s)'
      BY <1>2 DEF LoginChecksCollege, IInv, TypeOK, Request, Backed, At, Creating, Assigning
    <3>2. "session.save" \in PC
      BY DEF PC
    <3> QED
      BY <2>1, <2>3, <3>1, <3>2, GoesOn
  <2> QED
    BY <1>2, <2>2, <2>3 DEF LoginChecksCollege
<1>3. CASE SessionSaved(s)
  <2>1. req[s].email \in Emails /\ req[s].next \in Tokens
    BY <1>3 DEF SessionSaved, IInv, Backed, Creating, At
  <2> QED
    BY <1>3, <2>1, TokenSaved, Responds DEF SessionSaved
<1> QED
  BY <1>1, <1>2, <1>3

LEMMA RefreshSteps ==
  ASSUME IInv, NEW s \in Slots, RefreshStarts(s) \/ RefreshRevokes(s) \/ RefreshSaved(s)
  PROVE  IInv'
<1>1. CASE RefreshStarts(s)
  <2>1. PICK p \in Tokens, t \in FreshTokens :
          /\ refreshTokens[p].usable
          /\ req' = [req EXCEPT ![s] = [pc |-> "refresh.revoke", email |-> refreshTokens[p].email,
                                        presented |-> p, next |-> t]]
    BY <1>1 DEF RefreshStarts, Become
  <2> DEFINE r == [pc |-> "refresh.revoke", email |-> refreshTokens[p].email,
                   presented |-> p, next |-> t]
  <2>2. t \in Tokens /\ ~ refreshTokens[t].usable
    BY DEF FreshTokens
  <2>3. refreshTokens[p].email \in Emails
    BY <2>1, UsableNamesEmail DEF IInv, TypeOK
  <2>4. r \in Request
    BY <2>2, <2>3 DEF Request, PC
  <2>5. req'[s] = r
    BY <2>1 DEF IInv, TypeOK
  <2>6. Backed(s)'
    BY <1>1, <2>2, <2>3, <2>5 DEF RefreshStarts, Backed, At, Creating, Assigning
  <2>7. NamesOf(s, r)
    BY <2>1 DEF NamesOf
  <2> QED
    BY <1>1, <2>1, <2>4, <2>6, <2>7, RowsStill, OneMoves DEF RefreshStarts, rows
<1>2. CASE RefreshRevokes(s)
  <2>1. req[s].presented \in Tokens
    BY <1>2 DEF RefreshRevokes, IInv, Backed, At
  <2>2. refreshTokens' \in [Tokens -> RefreshTokenRow]
    <3>1. refreshTokens \in [Tokens -> RefreshTokenRow]
      BY DEF IInv, TypeOK, RowsOK
    <3> DEFINE revoked == [refreshTokens[req[s].presented] EXCEPT !.usable = FALSE]
    <3>2. revoked \in RefreshTokenRow
      BY <2>1, <3>1 DEF RefreshTokenRow
    <3>3. refreshTokens' = [refreshTokens EXCEPT ![req[s].presented] = revoked]
      BY <1>2 DEF RefreshRevokes
    <3> HIDE DEF revoked
    <3> QED
      BY <2>1, <3>1, <3>2, <3>3
  <2>3. ~ refreshTokens'[req[s].presented].usable
    BY <1>2, <2>1 DEF RefreshRevokes, IInv, TypeOK, RowsOK, RefreshTokenRow
  <2>4. \A t \in Tokens : t # req[s].presented => refreshTokens'[t] = refreshTokens[t]
    BY <1>2 DEF RefreshRevokes, IInv, TypeOK, RowsOK
  <2>5. RowsFine' /\ Kept(s)
    BY <1>2, <2>2, <2>3, <2>4 DEF RefreshRevokes, RowsFine, RowsOK, Kept,
       AssignmentsNameManagers, IInv, TypeOK, adminVars
  <2>6. req'[s] = [req[s] EXCEPT !.pc = "refresh.save"] => Backed(s)'
    BY <1>2, <2>1, <2>3, <2>4, ReadTypes, AccountsAssumption DEF RefreshRevokes, IInv, TypeOK, Request,
       Backed, At, Creating, Assigning
  <2>7. "refresh.save" \in PC
    BY DEF PC
  <2> QED
    BY <1>2, <2>5, <2>6, <2>7, GoesOn DEF RefreshRevokes
<1>3. CASE RefreshSaved(s)
  <2>1. req[s].email \in Emails /\ req[s].next \in Tokens
    BY <1>3 DEF RefreshSaved, IInv, Backed, Creating, At
  <2> QED
    BY <1>3, <2>1, TokenSaved, Responds DEF RefreshSaved
<1> QED
  BY <1>1, <1>2, <1>3

------------------------------------------------------------------------------
(* AdminService *)

LEMMA CollegeSteps ==
  ASSUME IInv, NEW s \in Slots,
         CollegeCreated(s) \/ CanteenCreated(s) \/ CollegeUpdateStarts(s) \/ CollegeUpdated(s)
  PROVE  IInv'
<1>1. CASE CollegeCreated(s)
  <2>1. RowsFine' /\ Kept(s)
    BY <1>1 DEF CollegeCreated, IInv, TypeOK, RowsFine, RowsOK, AssignmentsNameManagers, Kept
  <2>2. req'[s] = [req[s] EXCEPT !.pc = "college.canteen"] => Backed(s)'
    <3>1. req[s] \in Request /\ Backed(s)
      BY ReadTypes DEF IInv
    <3> QED
      BY <1>1, <3>1 DEF CollegeCreated, Request, Backed, At, Creating, Assigning
  <2>3. "college.canteen" \in PC
    BY DEF PC
  <2> QED
    BY <1>1, <2>1, <2>2, <2>3, GoesOn DEF CollegeCreated
<1>2. CASE CanteenCreated(s)
  <2>1. RowsFine' /\ Kept(s)
    BY <1>2 DEF CanteenCreated, IInv, TypeOK, RowsFine, RowsOK, AssignmentsNameManagers, Kept
  <2> QED
    BY <1>2, <2>1, Responds DEF CanteenCreated
<1>3. CASE CollegeUpdateStarts(s)
  <2>1. PICK pc \in {"college.on", "college.off"} : Goto(s, pc)
    BY <1>3 DEF CollegeUpdateStarts
  <2>2. RowsFine' /\ Kept(s)
    BY <1>3, RowsStill DEF CollegeUpdateStarts, rows
  <2>3. req'[s] = [req[s] EXCEPT !.pc = pc] => Backed(s)'
    <3>1. req[s] \in Request /\ Backed(s)
      BY ReadTypes DEF IInv
    <3> QED
      BY <1>3, <3>1 DEF CollegeUpdateStarts, adminVars, Request, Backed, At, Creating, Assigning
  <2>4. pc \in PC
    BY DEF PC
  <2> QED
    BY <2>1, <2>2, <2>3, <2>4, GoesOn
<1>4. CASE CollegeUpdated(s)
  <2>1. RowsFine' /\ Kept(s)
    BY <1>4 DEF CollegeUpdated, IInv, TypeOK, RowsFine, RowsOK, AssignmentsNameManagers, Kept
  <2> QED
    BY <1>4, <2>1, Responds DEF CollegeUpdated
<1> QED
  BY <1>1, <1>2, <1>3, <1>4

LEMMA AssignChecks ==
  ASSUME IInv, NEW s \in Slots,
         AssignStarts(s) \/ AssignChecksCanteen(s) \/ AssignChecksEmail(s)
  PROVE  IInv'
<1>1. RowsFine' /\ Kept(s)
  BY RowsStill DEF AssignStarts, AssignChecksCanteen, AssignChecksEmail, rows
<1>2. CASE AssignStarts(s)
  <2>1. PICK e \in Emails :
          req' = [req EXCEPT ![s] = [Idle EXCEPT !.pc = "assign.canteen", !.email = e]]
    BY <1>2 DEF AssignStarts, Become
  <2> DEFINE r == [Idle EXCEPT !.pc = "assign.canteen", !.email = e]
  <2>2. r \in Request
    BY DEF Idle, Request, PC
  <2>3. req'[s] = r
    BY <2>1 DEF IInv, TypeOK
  <2>4. Backed(s)'
    BY <2>3 DEF Backed, Idle, At, Creating, Assigning
  <2>5. NamesOf(s, r)
    BY DEF NamesOf, Idle
  <2> QED
    BY <1>1, <2>1, <2>2, <2>4, <2>5, OneMoves
<1>3. CASE AssignChecksCanteen(s)
  <2>1. CASE Respond(s)
    BY <1>1, <2>1, Responds
  <2>2. CASE canteen /\ Goto(s, "assign.email")
    <3>1. req'[s] = [req[s] EXCEPT !.pc = "assign.email"] => Backed(s)'
      BY <1>3, <2>2 DEF AssignChecksCanteen, adminVars, IInv, TypeOK, Request, Backed, At,
         Creating, Assigning
    <3>2. "assign.email" \in PC
      BY DEF PC
    <3> QED
      BY <1>1, <2>2, <3>1, <3>2, GoesOn
  <2> QED
    BY <1>3, <2>1, <2>2 DEF AssignChecksCanteen
<1>4. CASE AssignChecksEmail(s)
  <2>1. CASE Respond(s)
    BY <1>1, <2>1, Responds
  <2>2. CASE Goto(s, "assign.account")
    <3>1. req'[s] = [req[s] EXCEPT !.pc = "assign.account"] => Backed(s)'
      BY <1>4 DEF AssignChecksEmail, adminVars, IInv, TypeOK, Request, Backed, At,
         Creating, Assigning
    <3>2. "assign.account" \in PC
      BY DEF PC
    <3> QED
      BY <1>1, <2>2, <3>1, <3>2, GoesOn
  <2> QED
    BY <1>4, <2>1, <2>2 DEF AssignChecksEmail, EmailIsNew
<1> QED
  BY <1>2, <1>3, <1>4

(* The account is created as a manager's and stays one, so the assignment  *)
(* that is written next names a manager.                                   *)
LEMMA AssignWrites ==
  ASSUME IInv, NEW s \in Slots, AssignSavesAccount(s) \/ AssignSaved(s)
  PROVE  IInv'
<1>1. CASE AssignSavesAccount(s)
  <2>1. RowsFine' /\ Kept(s)
    BY <1>1, AccountCreated DEF AssignSavesAccount, RoleCode
  <2>2. CASE Respond(s)
    BY <2>1, <2>2, Responds
  <2>3. CASE /\ account' = [account EXCEPT ![req[s].email] = "CANTEEN_MANAGER"]
             /\ Goto(s, "assign.save")
    <3>1. req[s].email \in Emails /\ canteen
      BY <1>1 DEF AssignSavesAccount, IInv, Backed, At, Assigning
    <3>2. account'[req[s].email] = "CANTEEN_MANAGER"
      BY <2>3, <3>1 DEF IInv, TypeOK, RowsOK
    <3>3. req'[s] = [req[s] EXCEPT !.pc = "assign.save"] => Backed(s)'
      BY <1>1, <3>1, <3>2 DEF AssignSavesAccount, adminVars, IInv, TypeOK, Request, Backed, At,
         Creating, Assigning
    <3>4. "assign.save" \in PC
      BY DEF PC
    <3> QED
      BY <2>1, <2>3, <3>3, <3>4, GoesOn
  <2> QED
    BY <1>1, <2>2, <2>3 DEF AssignSavesAccount, createRaw
<1>2. CASE AssignSaved(s)
  <2>1. /\ req[s].email \in Emails
        /\ canteen
        /\ account[req[s].email] = "CANTEEN_MANAGER"
    BY <1>2 DEF AssignSaved, IInv, Backed, At, Assigning
  <2>2. RowsFine' /\ Kept(s)
    BY <1>2, <2>1 DEF AssignSaved, IInv, TypeOK, RowsFine, RowsOK, AssignmentsNameManagers, Kept
  <2> QED
    BY <1>2, <2>2, Responds DEF AssignSaved
<1> QED
  BY <1>1, <1>2

------------------------------------------------------------------------------
LEMMA EnvironmentSteps ==
  ASSUME IInv, TokenExpires \/ \E s \in Slots : Abort(s)
  PROVE  IInv'
<1>1. CASE TokenExpires
  <2>1. PICK x \in Tokens :
          /\ refreshTokens[x].usable
          /\ refreshTokens' = [refreshTokens EXCEPT ![x].usable = FALSE]
    BY <1>1 DEF TokenExpires
  <2>2. refreshTokens' \in [Tokens -> RefreshTokenRow]
    BY <2>1 DEF IInv, TypeOK, RowsOK, RefreshTokenRow
  <2>3. ~ refreshTokens'[x].usable
    BY <2>1 DEF IInv, TypeOK, RowsOK, RefreshTokenRow
  <2>4. \A t \in Tokens : t # x => refreshTokens'[t] = refreshTokens[t]
    BY <2>1 DEF IInv, TypeOK, RowsOK
  <2>6. \A t \in Tokens : ~ refreshTokens[t].usable => ~ refreshTokens'[t].usable
    BY <2>3, <2>4
  <2>7. TypeOK' /\ AssignmentsNameManagers'
    BY <1>1, <2>2, <2>3, <2>4 DEF TokenExpires, IInv, TypeOK, RowsOK, AssignmentsNameManagers, adminVars
  <2>8. ASSUME NEW s \in Slots PROVE Backed(s)'
    <3>1. /\ req[s].presented \in Tokens \cup {None}
          /\ req[s].next \in Tokens \cup {None}
          /\ Backed(s)
      BY ReadTypes DEF IInv
    <3> QED
      BY <1>1, <2>6, <3>1 DEF TokenExpires, Backed, At, Creating, Assigning, adminVars
  <2>9. NamesApart'
    BY <1>1 DEF TokenExpires, IInv, NamesApart
  <2> QED
    BY <2>7, <2>8, <2>9 DEF IInv
<1>2. ASSUME NEW s \in Slots, Abort(s) PROVE IInv'
  <2>1. aborts' \in 0..MaxAborts
    <3>1. MaxAborts \in Nat
      BY AccountsAssumption
    <3>2. aborts \in 0..MaxAborts
      BY DEF IInv, TypeOK, RowsOK
    <3>3. aborts < MaxAborts /\ aborts' = aborts + 1
      BY <1>2 DEF Abort
    <3> QED
      BY <3>1, <3>2, <3>3
  <2>2. RowsFine' /\ Kept(s)
    BY <1>2, <2>1 DEF Abort, IInv, TypeOK, RowsFine, RowsOK, AssignmentsNameManagers, Kept, adminVars
  <2> QED
    BY <1>2, <2>2, Responds DEF Abort
<1> QED
  BY <1>1, <1>2

LEMMA InvariantStep == IInv /\ [Next]_vars => IInv'
<1> SUFFICES ASSUME IInv, [Next]_vars PROVE IInv'
  OBVIOUS
<1>1. CASE UNCHANGED vars
  BY <1>1 DEF vars, adminVars, IInv, TypeOK, RowsOK, AssignmentsNameManagers, Backed, At,
     Creating, Assigning, NamesApart
<1>2. CASE TokenExpires
  BY <1>2, EnvironmentSteps
<1>3. ASSUME NEW s \in Slots, Arrival(s) PROVE IInv'
  BY <1>3, RegisterSteps, LoginSteps, RefreshSteps, CollegeSteps, AssignChecks DEF Arrival
<1>4. ASSUME NEW s \in Slots, Proceed(s) PROVE IInv'
  BY <1>4, RegisterSteps, LoginSteps, RefreshSteps, CollegeSteps, AssignChecks, AssignWrites
     DEF Proceed, registerCustomer, login, refresh, assignManager
<1>5. ASSUME NEW s \in Slots, Abort(s) PROVE IInv'
  BY <1>5, EnvironmentSteps
<1> QED
  BY <1>1, <1>2, <1>3, <1>4, <1>5 DEF Next

(* The invariant holds in every reachable state. *)
THEOREM AccountsInvariance == Spec => []IInv
  BY InitInvariant, InvariantStep, PTL DEF Spec

(* The rows of AuthService and AdminService and the requests in progress   *)
(* keep their types.                                                       *)
THEOREM AccountsTypes == Spec => []TypeOK
<1>1. IInv => TypeOK
  BY DEF IInv
<1> QED
  BY <1>1, AccountsInvariance, PTL

(* Whatever registers and is made a manager at the same time, assignments  *)
(* written by assignManager name managers of a canteen that exists.        *)
THEOREM AssignedAreManagers == Spec => []AssignmentsNameManagers
<1>1. IInv => AssignmentsNameManagers
  BY DEF IInv
<1> QED
  BY <1>1, AccountsInvariance, PTL

(* When refresh creates a token, the one it was presented is spent,        *)
(* whatever other refreshes are in progress.                               *)
THEOREM RotationSpends == Spec => RotatedTokenIsSpent
<1>1. ASSUME IInv, NEW s \in Slots, At(s, "refresh.save"), RefreshSaved(s)
      PROVE  ~ refreshTokens'[req[s].presented].usable
  <2>1. /\ req[s].presented \in Tokens
        /\ req[s].next \in Tokens
        /\ ~ refreshTokens[req[s].presented].usable
    BY <1>1 DEF IInv, Backed, Creating, At
  <2>2. req[s].presented # req[s].next
    <3>1. req[s].next # None
      BY <2>1, AccountsAssumption
    <3> QED
      BY <1>1, <3>1 DEF IInv, NamesApart
  <2>3. refreshTokens'[req[s].presented] = refreshTokens[req[s].presented]
    BY <1>1, <2>1, <2>2 DEF RefreshSaved, SavesToken, IInv, TypeOK, RowsOK
  <2> QED
    BY <2>1, <2>3
<1>2. IInv => [\A s \in Slots :
                 At(s, "refresh.save") /\ RefreshSaved(s) =>
                   ~ refreshTokens'[req[s].presented].usable]_vars
  BY <1>1
<1> QED
  BY <1>2, AccountsInvariance, PTL DEF RotatedTokenIsSpent

==============================================================================
