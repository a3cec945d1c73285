------------------------------- MODULE Accounts -------------------------------
(***************************************************************************)
(* Accounts and sessions of one college: services/auth/auth.service.ts     *)
(* (registration, login, rotation of refresh tokens) next to               *)
(* services/admin/admin.service.ts (creation and deactivation of the       *)
(* college, assignment of managers).  Neither service uses a transaction:  *)
(* a request is cut at its awaits, and any other request, of this or       *)
(* another replica, may run in between.                                    *)
(***************************************************************************)
EXTENDS Naturals

CONSTANTS
  Slots,      \* requests that can be in progress at the same time
  Emails,     \* the people who register or are made managers
  Tokens,     \* refresh tokens
  None,       \* a null
  MaxAborts   \* bound on requests cut short by a crash or an I/O error

ASSUME AccountsAssumption ==
  /\ None \notin Emails \cup Tokens
  /\ MaxAborts \in Nat

VARIABLES
  college,        \* the College row: isActive
  canteen,        \* the Canteen row of the college exists
  account,        \* the User row of each email: its role
  assigned,       \* emails whose user has a ManagerAssignment
  refreshTokens,  \* the RefreshToken rows
  req,            \* what each request in progress has read, and where it waits
  aborts          \* requests cut short so far

adminVars == <<college, canteen, assigned>>
vars == <<adminVars, account, refreshTokens, req, aborts>>

RoleCode == {"CUSTOMER", "CANTEEN_MANAGER"}

(* usable: revokedAt is null and expiresAt is ahead. *)
RefreshTokenRow == [email : Emails \cup {None}, usable : BOOLEAN]

NoToken == [email |-> None, usable |-> FALSE]

PC ==
  {"idle", "register.email", "register.account", "login.college", "session.save",
   "refresh.revoke", "refresh.save", "college.canteen", "college.on", "college.off",
   "assign.canteen", "assign.email", "assign.account", "assign.save"}

Request ==
  [pc : PC,
   email : Emails \cup {None},
   presented : Tokens \cup {None},   \* the token a refresh found
   next : Tokens \cup {None}]        \* the token the new session will have

Idle == [pc |-> "idle", email |-> None, presented |-> None, next |-> None]

RowsOK ==
  /\ college \in {"NO ROW", "ACTIVE", "INACTIVE"}
  /\ canteen \in BOOLEAN
  /\ account \in [Emails -> RoleCode \cup {"NO ROW"}]
  /\ assigned \subseteq Emails
  /\ refreshTokens \in [Tokens -> RefreshTokenRow]
  /\ \A t \in Tokens : refreshTokens[t].usable => refreshTokens[t].email \in Emails
  /\ aborts \in 0..MaxAborts

TypeOK == RowsOK /\ req \in [Slots -> Request]

Init ==
  /\ college = "NO ROW"
  /\ canteen = FALSE
  /\ account = [e \in Emails |-> "NO ROW"]
  /\ assigned = {}
  /\ refreshTokens = [t \in Tokens |-> NoToken]
  /\ req = [s \in Slots |-> Idle]
  /\ aborts = 0

At(s, pc) == req[s].pc = pc
Become(s, r) == req' = [req EXCEPT ![s] = r]
Goto(s, pc) == Become(s, [req[s] EXCEPT !.pc = pc])
Respond(s) == Become(s, Idle)

(* Rows are never deleted; a token that is over and that no request names  *)
(* is as good as a new one, because presenting it changes nothing.  The    *)
(* name of a new session's token is drawn when its request starts.         *)
FreshTokens ==
  {t \in Tokens : /\ ~ refreshTokens[t].usable
                  /\ \A s \in Slots : t \notin {req[s].presented, req[s].next}}

------------------------------------------------------------------------------
(* UserRepository.createRaw.  User.email is unique: of two requests that   *)
(* found no user, the second one is refused and ends with an error.        *)

(* Mutant of createRaw: the row is replaced. *)
createOrReplace(s, role, pc) ==
  /\ account' = [account EXCEPT ![req[s].email] = role]
  /\ Goto(s, pc)

createRaw(s, role, pc) ==
  \/ /\ account[req[s].email] = "NO ROW"
     /\ account' = [account EXCEPT ![req[s].email] = role]
     /\ Goto(s, pc)
  \/ /\ account[req[s].email] # "NO ROW"
     /\ UNCHANGED account
     /\ Respond(s)

EmailIsNew(s, pc) ==
  IF account[req[s].email] = "NO ROW" THEN Goto(s, pc) ELSE Respond(s)

------------------------------------------------------------------------------
(* AuthService.  A call that is refused by what it reads first is left out. *)

RegisterStarts(s) ==
  /\ At(s, "idle")
  /\ college = "ACTIVE"
  /\ \E e \in Emails, t \in FreshTokens :
       Become(s, [Idle EXCEPT !.pc = "register.email", !.email = e, !.next = t])
  /\ UNCHANGED <<adminVars, account, refreshTokens, aborts>>

RegisterChecksEmail(s) ==
  /\ At(s, "register.email")
  /\ EmailIsNew(s, "register.account")
  /\ UNCHANGED <<adminVars, account, refreshTokens, aborts>>

RegisterSavesAccount(s) ==
  /\ At(s, "register.account")
  /\ createRaw(s, "CUSTOMER", "session.save")
  /\ UNCHANGED <<adminVars, refreshTokens, aborts>>

LoginStarts(s) ==
  /\ At(s, "idle")
  /\ \E e \in Emails, t \in FreshTokens :
       /\ account[e] # "NO ROW"
       /\ Become(s, [Idle EXCEPT !.pc = "login.college", !.email = e, !.next = t])
  /\ UNCHANGED <<adminVars, account, refreshTokens, aborts>>

(* Mutant of LoginChecksCollege: the tenant is not asked. *)
LoginAnyCollege(s) ==
  /\ At(s, "login.college")
  /\ Goto(s, "session.save")
  /\ UNCHANGED <<adminVars, account, refreshTokens, aborts>>

LoginChecksCollege(s) ==
  /\ At(s, "login.college")
  /\ IF college = "ACTIVE" THEN Goto(s, "session.save") ELSE Respond(s)
  /\ UNCHANGED <<adminVars, account, refreshTokens, aborts>>

SavesToken(s) ==
  refreshTokens' =
    [refreshTokens EXCEPT ![req[s].next] = [email |-> req[s].email, usable |-> TRUE]]

(* The last write of registerCustomer and of login. *)
SessionSaved(s) ==
  /\ At(s, "session.save")
  /\ SavesToken(s)
  /\ Respond(s)
  /\ UNCHANGED <<adminVars, account, aborts>>

(* Mutant of RefreshStarts: the payload is not carried over. *)
RefreshForgetsPayload(s) ==
  /\ At(s, "idle")
  /\ \E p \in Tokens, t \in FreshTokens :
       /\ refreshTokens[p].usable
       /\ Become(s, [Idle EXCEPT !.pc = "refresh.revoke", !.presented = p, !.next = t])
  /\ UNCHANGED <<adminVars, account, refreshTokens, aborts>>

(* refresh goes by the token alone: neither the user nor the college is    *)
(* asked again.                                                            *)
RefreshStarts(s) ==
  /\ At(s, "idle")
  /\ \E p \in Tokens, t \in FreshTokens :
       /\ refreshTokens[p].usable
       /\ Become(s, [pc |-> "refresh.revoke", email |-> refreshTokens[p].email,
                     presented |-> p, next |-> t])
  /\ UNCHANGED <<adminVars, account, refreshTokens, aborts>>

(* Mutant of RefreshRevokes: the new session is created first. *)
RefreshSavesFirst(s) ==
  /\ At(s, "refresh.revoke")
  /\ SavesToken(s)
  /\ Goto(s, "refresh.save")
  /\ UNCHANGED <<adminVars, account, aborts>>

(* The row is updated by its id: revoking it twice is not noticed. *)
RefreshRevokes(s) ==
  /\ At(s, "refresh.revoke")
  /\ refreshTokens' = [refreshTokens EXCEPT ![req[s].presented].usable = FALSE]
  /\ Goto(s, "refresh.save")
  /\ UNCHANGED <<adminVars, account, aborts>>

RefreshSaved(s) ==
  /\ At(s, "refresh.save")
  /\ SavesToken(s)
  /\ Respond(s)
  /\ UNCHANGED <<adminVars, account, aborts>>

registerCustomer(s) == RegisterChecksEmail(s) \/ RegisterSavesAccount(s)
login(s) == LoginChecksCollege(s) \/ SessionSaved(s)
refresh(s) == RefreshRevokes(s) \/ RefreshSaved(s)

------------------------------------------------------------------------------
(* AdminService *)

(* createCollege: College.code is unique, so a second one is refused. *)
CollegeCreated(s) ==
  /\ At(s, "idle")
  /\ college = "NO ROW"
  /\ college' = "ACTIVE"
  /\ Goto(s, "college.canteen")
  /\ UNCHANGED <<canteen, assigned, account, refreshTokens, aborts>>

CanteenCreated(s) ==
  /\ At(s, "college.canteen")
  /\ canteen' = TRUE
  /\ Respond(s)
  /\ UNCHANGED <<college, assigned, account, refreshTokens, aborts>>

(* updateCollege and deactivateCollege; other columns are not kept. *)
CollegeUpdateStarts(s) ==
  /\ At(s, "idle")
  /\ college # "NO ROW"
  /\ \E pc \in {"college.on", "college.off"} : Goto(s, pc)
  /\ UNCHANGED <<adminVars, account, refreshTokens, aborts>>

CollegeUpdated(s) ==
  /\ \/ At(s, "college.on") /\ college' = "ACTIVE"
     \/ At(s, "college.off") /\ college' = "INACTIVE"
  /\ Respond(s)
  /\ UNCHANGED <<canteen, assigned, account, refreshTokens, aborts>>

AssignStarts(s) ==
  /\ At(s, "idle")
  /\ college = "ACTIVE"
  /\ \E e \in Emails : Become(s, [Idle EXCEPT !.pc = "assign.canteen", !.email = e])
  /\ UNCHANGED <<adminVars, account, refreshTokens, aborts>>

AssignChecksCanteen(s) ==
  /\ At(s, "assign.canteen")
  /\ IF canteen THEN Goto(s, "assign.email") ELSE Respond(s)
  /\ UNCHANGED <<adminVars, account, refreshTokens, aborts>>

AssignChecksEmail(s) ==
  /\ At(s, "assign.email")
  /\ EmailIsNew(s, "assign.account")
  /\ UNCHANGED <<adminVars, account, refreshTokens, aborts>>

AssignSavesAccount(s) ==
  /\ At(s, "assign.account")
  /\ createRaw(s, "CANTEEN_MANAGER", "assign.save")
  /\ UNCHANGED <<adminVars, refreshTokens, aborts>>

AssignSaved(s) ==
  /\ At(s, "assign.save")
  /\ assigned' = assigned \cup {req[s].email}
  /\ Respond(s)
  /\ UNCHANGED <<college, canteen, account, refreshTokens, aborts>>

assignManager(s) ==
  AssignChecksCanteen(s) \/ AssignChecksEmail(s) \/ AssignSavesAccount(s) \/ AssignSaved(s)

------------------------------------------------------------------------------
(* JWT_REFRESH_TTL passes. *)
TokenExpires ==
  /\ \E t \in Tokens :
       /\ refreshTokens[t].usable
       /\ refreshTokens' = [refreshTokens EXCEPT ![t].usable = FALSE]
  /\ UNCHANGED <<adminVars, account, req, aborts>>

(* A crash of the replica, or an await that rejects. *)
Abort(s) ==
  /\ ~ At(s, "idle")
  /\ aborts < MaxAborts
  /\ aborts' = aborts + 1
  /\ Respond(s)
  /\ UNCHANGED <<adminVars, account, refreshTokens>>

Arrival(s) ==
  \/ RegisterStarts(s) \/ LoginStarts(s) \/ RefreshStarts(s)
  \/ CollegeCreated(s) \/ CollegeUpdateStarts(s) \/ AssignStarts(s)

Proceed(s) ==
  \/ registerCustomer(s) \/ login(s) \/ refresh(s)
  \/ CanteenCreated(s) \/ CollegeUpdated(s) \/ assignManager(s)

Next == TokenExpires \/ \E s \in Slots : Arrival(s) \/ Proceed(s) \/ Abort(s)

Spec == Init /\ [][Next]_vars

(* A request in progress is run to its end. *)
Fairness == \A s \in Slots : WF_vars(Proceed(s))

FairSpec == Spec /\ Fairness

------------------------------------------------------------------------------
(* Only managers are assigned, and only to a canteen that exists: an email *)
(* that is registered as a customer and made a manager at the same time    *)
(* ends up as one of them, and the assignment, written two awaits later,   *)
(* never names the customer.                                               *)
AssignmentsNameManagers ==
  assigned # {} => canteen /\ \A e \in assigned : account[e] = "CANTEEN_MANAGER"

(* Refresh tokens are rotated (README.md:67): when a refresh creates the   *)
(* new token, the one it was presented is spent, whatever other refreshes  *)
(* of it or of other tokens have done since it was revoked.                *)
RotatedTokenIsSpent ==
  [][\A s \in Slots :
       At(s, "refresh.save") /\ RefreshSaved(s) =>
         ~ refreshTokens'[req[s].presented].usable]_vars

(* A college that is deactivated for good lets nobody in any more: the     *)
(* registrations and logins that read it before the change run out, and    *)
(* what is left are refreshes of sessions that were open.                  *)
LockoutHolds ==
  <>[](college = "INACTIVE") =>
    <>[][\A s \in Slots : ~ SessionSaved(s)]_vars

------------------------------------------------------------------------------
(* The strengthening behind the safety properties: what the next write of  *)
(* a request rests on still holds when it is made, and the tokens requests *)
(* name do not get into each other's way.                                  *)

Creating == {"register.email", "register.account", "login.college", "session.save",
             "refresh.revoke", "refresh.save"}
Assigning == {"assign.email", "assign.account", "assign.save"}

Backed(s) ==
  /\ req[s].pc \in Creating => req[s].email \in Emails /\ req[s].next \in Tokens
  /\ req[s].pc \in {"refresh.revoke", "refresh.save"} => req[s].presented \in Tokens
  /\ At(s, "refresh.save") => ~ refreshTokens[req[s].presented].usable
  /\ At(s, "assign.canteen") => req[s].email \in Emails
  /\ req[s].pc \in Assigning => req[s].email \in Emails /\ canteen
  /\ At(s, "assign.save") => account[req[s].email] = "CANTEEN_MANAGER"
  /\ req[s].next # None => ~ refreshTokens[req[s].next].usable

NamesApart ==
  \A s, r \in Slots :
    req[s].next # None =>
      /\ req[r].presented # req[s].next
      /\ r # s => req[r].next # req[s].next

IInv ==
  /\ TypeOK
  /\ AssignmentsNameManagers
  /\ \A s \in Slots : Backed(s)
  /\ NamesApart

==============================================================================
