----------------------------- MODULE GoogleOAuth -----------------------------
(***************************************************************************)
(* The two OAuth flows of the backend and the Drive authorizations that    *)
(* come out of them: google_session_oauth.py (an identity-only login that  *)
(* makes a Django session), user_oauth.py (a user's consent to Drive), the *)
(* views around both, disconnecting, and the cutover of                    *)
(* permission_authority.py as far as it touches authorizations.            *)
(*                                                                         *)
(* Requests of several tabs and browsers run at the same time.  A callback *)
(* holds its own copy of the session: Django loads it whole when the user  *)
(* is looked up, and saves it whole where the code calls save() and once   *)
(* more at the end of the request.  Between its steps it talks to Google   *)
(* and to PostgreSQL.  Who has an address may change at Google meanwhile.  *)
(*                                                                         *)
(* Issuer and subject are one value, and so is the Django user they name   *)
(* (_oauth_username).  Secrets (state, nonce, PKCE verifier) are the name  *)
(* of their flow.  A visibility run is in flight or not, and an account has *)
(* verified evidence or not: the steps of a run are in UserVisibility, here *)
(* several accounts of one address have runs while they connect.            *)
(***************************************************************************)
EXTENDS Naturals, FiniteSets

CONSTANTS
    Browsers,           \* cookie jars
    Requests,           \* callbacks and disconnects served at the same time
    LoginFlows,         \* identity flows, by the authorization URL handed out
    DriveFlows,         \* Drive consent flows
    Subjects,           \* Google accounts
    Emails,             \* addresses of the allowed domain
    None,               \* no flow, no user, no address, no token, no row
    FirstDirectory,     \* who has which address at the start
    MaxGeneration,      \* bound: cutovers
    MaxLogins,          \* bound: accounts that answer one identity flow
    MaxAnswers          \* bound: accounts that answer one Drive consent screen

Flows == LoginFlows \cup DriveFlows

ASSUME SubjectsAssumption == IsFiniteSet(Subjects)

ASSUME FlowAssumption == LoginFlows \cap DriveFlows = {}

Consents == Flows \X Subjects

ASSUME NoneAssumption ==
    None \notin Browsers \cup Requests \cup Flows \cup Subjects \cup Emails \cup Consents

ASSUME DirectoryAssumption ==
    /\ FirstDirectory \in [Subjects -> Emails \cup {None}]
    /\ \A s, t \in Subjects :
           s # t /\ FirstDirectory[s] = FirstDirectory[t] => FirstDirectory[s] = None

ASSUME BoundsAssumption ==
    MaxGeneration \in Nat /\ MaxLogins \in Nat /\ MaxAnswers \in Nat

VARIABLES
    directory,      \* Google: the address of each account
    issued,         \* Google: consents given, as flow and account
    codes,          \* Google: those whose code was not exchanged yet
    revoked,        \* Google: refresh tokens revoked
    flows,          \* what was stored in a session when a flow began
    sessions,       \* django_session, by browser
    users,          \* auth_user: the e-mail of each account's user
    connection,     \* the DriveConnection row
    rows,           \* GoogleDriveAuthorization, by account
    asking,         \* visibility runs in flight: the account and the authorization
                    \* they were validated with
    evidence,       \* by account, the authorization its verified rows of
                    \* UserDocumentVisibility were obtained with
    requests        \* what each request is doing

vars == <<directory, issued, codes, revoked, flows, sessions, users, connection,
          rows, asking, evidence, requests>>
google == <<directory, issued, codes, revoked>>
tables == <<connection, rows, asking, evidence>>

Kinds == {"login", "drive"}
Generations == 0..MaxGeneration

\* A flow not begun yet, and what begin_* stores: the Drive flow binds the
\* e-mail of the session's user and the generation of the connection.
NewFlow == [browser |-> None, email |-> None, generation |-> 0]
FlowRecords ==
    [browser : Browsers \cup {None}, email : Emails \cup {None}, generation : Generations]
KindOf(f) == IF f \in LoginFlows THEN "login" ELSE "drive"

\* Every begin and every login mints a session key (cycle_key, flush).
Keys == (Flows \X {"begin", "login"}) \cup {None}
SessionRecords ==
    [key : Keys, user : Subjects \cup {None}, stored : [Kinds -> Flows \cup {None}]]
Anonymous == [key |-> None, user |-> None, stored |-> [k \in Kinds |-> None]]

\* An active row can be used: it has a credential and the flow it came from.
AuthorizationRows ==
    {row \in [email : Emails, generation : Generations, active : BOOLEAN,
              credential : Consents \cup {None}, authorization : Flows \cup {None}] :
        row.active => row.credential # None /\ row.authorization # None}

Steps == {"opened", "accepted", "verified", "checked", "closing", "revoking"}
RequestRecords ==
    [step : Steps, browser : Browsers, session : SessionRecords, flow : Flows \cup {None},
     subject : Subjects \cup {None}, email : Emails \cup {None},
     credentials : SUBSET Consents]

Init ==
    /\ directory = FirstDirectory
    /\ issued = {}
    /\ codes = {}
    /\ revoked = {}
    /\ flows = [f \in Flows |-> NewFlow]
    /\ sessions = [b \in Browsers |-> Anonymous]
    /\ users = [s \in Subjects |-> None]
    /\ connection = [generation |-> 0, serves |-> TRUE]
    /\ rows = [s \in Subjects |-> None]
    /\ asking = {}
    /\ evidence = [s \in Subjects |-> None]
    /\ requests = [q \in Requests |-> None]

NewRequest(step, b, session) ==
    [step |-> step, browser |-> b, session |-> session, flow |-> None, subject |-> None,
     email |-> None, credentials |-> {}]

At(q, step) == requests[q] # None /\ requests[q].step = step
Goto(q, step) == requests' = [requests EXCEPT ![q].step = step]
End(q) == requests' = [requests EXCEPT ![q] = None]

\* Nothing is left to do but to answer, with this session.
Answer(q, session) ==
    requests' = [requests EXCEPT ![q] = NewRequest("closing", requests[q].browser, session)]

FlowOf(q) == requests[q].flow
Token(q) == <<FlowOf(q), requests[q].subject>>

-----------------------------------------------------------------------------
(* Beginning a flow, and Google                                            *)

\* The session keeps its other contents and gets a new key.
Begin(b, f, email, generation) ==
    /\ flows[f].browser = None
    /\ flows' = [flows EXCEPT ![f] =
           [browser |-> b, email |-> email, generation |-> generation]]
    /\ sessions' = [sessions EXCEPT ![b].key = <<f, "begin">>, ![b].stored[KindOf(f)] = f]

BeginSessionAuthorization(b, f) ==
    /\ Begin(b, f, None, 0)
    /\ UNCHANGED <<google, users, tables, requests>>

BeginAuthorization(b, f) ==
    /\ sessions[b].user # None
    /\ connection.serves
    /\ Begin(b, f, users[sessions[b].user], connection.generation)
    /\ UNCHANGED <<google, users, tables, requests>>

\* Any account may answer the consent screen, also one after another.
Consent(f, s) ==
    /\ flows[f].browser # None
    /\ directory[s] # None
    /\ Cardinality({t \in Subjects : <<f, t>> \in issued})
           < IF f \in LoginFlows THEN MaxLogins ELSE MaxAnswers
    /\ <<f, s>> \notin issued
    /\ issued' = issued \cup {<<f, s>>}
    /\ codes' = codes \cup {<<f, s>>}
    /\ UNCHANGED <<directory, revoked, flows, sessions, users, tables, requests>>

\* An administrator renames, removes or adds an account.
MoveAddress(s, e) ==
    /\ e # directory[s]
    /\ e # None => \A t \in Subjects : directory[t] # e
    /\ directory' = [directory EXCEPT ![s] = e]
    /\ UNCHANGED <<issued, codes, revoked, flows, sessions, users, tables, requests>>

-----------------------------------------------------------------------------
(* The callbacks                                                           *)

\* The view reads the user, and with it the session.  A callback URL may be
\* opened twice, late, or in another browser.
OpenCallback(q, b, f, s) ==
    /\ requests[q] = None
    /\ <<f, s>> \in issued
    /\ f \in DriveFlows => sessions[b].user # None
    /\ requests' = [requests EXCEPT ![q] =
           [NewRequest("opened", b, sessions[b]) EXCEPT !.flow = f, !.subject = s]]
    /\ UNCHANGED <<google, flows, sessions, users, tables>>

\* session.save() finds its row only while nobody has cycled the key.
KeyIsLive(q) == sessions[requests[q].browser].key = requests[q].session.key

Popped(q) == [requests[q].session EXCEPT !.stored[KindOf(FlowOf(q))] = None]

\* Mutant: only the Drive flow looks at what is stored.
StateMatchesForDrive(q) ==
    FlowOf(q) \in DriveFlows => requests[q].session.stored["drive"] = FlowOf(q)

\* The stored state is the one of the callback and, for Drive, its e-mail
\* the one of the session's user.
StateMatches(q) ==
    LET session == requests[q].session
    IN  /\ session.stored[KindOf(FlowOf(q))] = FlowOf(q)
        /\ FlowOf(q) \in DriveFlows => flows[FlowOf(q)].email = users[session.user]

\* _consume_state pops and saves before it looks.  A state too old, a missing
\* code or an error from the provider is refused like a wrong state.
ConsumeState(q) ==
    /\ At(q, "opened")
    /\ KeyIsLive(q)
    /\ sessions' = [sessions EXCEPT ![requests[q].browser] = Popped(q)]
    /\ UNCHANGED <<google, flows, users, tables>>

AcceptState(q) ==
    /\ ConsumeState(q)
    /\ StateMatches(q)
    /\ requests' = [requests EXCEPT ![q].session = Popped(q), ![q].step = "accepted"]

RefuseState(q) == ConsumeState(q) /\ Answer(q, Popped(q))

\* Google gives out the token of a code once; the claims name the account and
\* its present address, which for Drive must be the one stored.
IdentityMatches(q) ==
    LET email == directory[requests[q].subject]
    IN  email # None /\ (FlowOf(q) \in DriveFlows => email = flows[FlowOf(q)].email)

Exchange(q) ==
    /\ At(q, "accepted")
    /\ Token(q) \in codes
    /\ IdentityMatches(q)
    /\ codes' = codes \ {Token(q)}
    /\ requests' = [requests EXCEPT
           ![q].step = "verified",
           ![q].email = directory[requests[q].subject]]
    /\ UNCHANGED <<directory, issued, revoked, flows, sessions, users, tables>>

\* Google refuses, or its answer is lost or not accepted.
ExchangeFails(q) ==
    /\ At(q, "accepted")
    /\ codes' \in {codes, codes \ {Token(q)}}
    /\ Answer(q, requests[q].session)
    /\ UNCHANGED <<directory, issued, revoked, flows, sessions, users, tables>>

-----------------------------------------------------------------------------
(* The login: two statements of one transaction, then django.login         *)

\* Locking the conflicting users locks nothing when there are none.
NoIdentityConflict(q) ==
    \A t \in Subjects \ {requests[q].subject} : users[t] # requests[q].email

CheckConflict(q) ==
    /\ At(q, "verified")
    /\ FlowOf(q) \in LoginFlows
    /\ NoIdentityConflict(q)
    /\ Goto(q, "checked")
    /\ UNCHANGED <<google, flows, sessions, users, tables>>

RefuseConflict(q) ==
    /\ At(q, "verified")
    /\ FlowOf(q) \in LoginFlows
    /\ ~NoIdentityConflict(q)
    /\ Answer(q, requests[q].session)
    /\ UNCHANGED <<google, flows, sessions, users, tables>>

\* Mutant: the key is cycled whoever was logged in.
LoggedInOverAnother(q) ==
    [requests[q].session EXCEPT !.key = <<FlowOf(q), "login">>, !.user = requests[q].subject]

\* django.login keeps the session of the same user or of nobody under a new
\* key and throws away that of another user.
LoggedIn(q) ==
    LET session == requests[q].session
        subject == requests[q].subject
        key == <<FlowOf(q), "login">>
    IN  IF session.user \in {None, subject}
        THEN [session EXCEPT !.key = key, !.user = subject]
        ELSE [Anonymous EXCEPT !.key = key, !.user = subject]

SessionUser(q) ==
    LET subject == requests[q].subject
        email == requests[q].email
    IN  /\ At(q, "checked")
        /\ users[subject] \in {None, email}
        /\ users' = [users EXCEPT ![subject] = email]
        /\ sessions' = [sessions EXCEPT ![requests[q].browser] = LoggedIn(q)]
        /\ Answer(q, LoggedIn(q))
        /\ UNCHANGED <<google, flows, tables>>

\* The user has another e-mail, is inactive or belongs to the staff.
RefuseUser(q) ==
    /\ At(q, "checked")
    /\ Answer(q, requests[q].session)
    /\ UNCHANGED <<google, flows, sessions, users, tables>>

-----------------------------------------------------------------------------
(* Drive authorizations                                                    *)

\* Mutants: a column left out of update_fields.
DisconnectedButActive(row) == [row EXCEPT !.credential = None, !.authorization = None]
DisconnectedButUsable(row) == [row EXCEPT !.active = FALSE, !.authorization = None]

Disconnected(row) ==
    [row EXCEPT !.active = FALSE, !.credential = None, !.authorization = None]

\* Rows of these accounts are set back to unknown, or deleted.
WithholdAll(accounts) ==
    evidence' = [s \in Subjects |-> IF s \in accounts THEN None ELSE evidence[s]]

OfEmail(e) == {s \in Subjects : rows[s] # None /\ rows[s].email = e}

\* Mutant: the generation stored when the flow began is not compared.
ConnectionServes(q) == connection.serves

ConnectionUnchanged(q) ==
    connection.serves /\ connection.generation = flows[FlowOf(q)].generation

\* Mutant: any row of the account is taken to have a credential.
RowAvailable(q, refreshed) == refreshed \/ rows[requests[q].subject] # None

\* Without a new refresh token the one in the row is kept, if there is one.
CredentialAvailable(q, refreshed) ==
    LET row == rows[requests[q].subject]
    IN  refreshed \/ (row # None /\ row.credential # None)

\* complete_authorization's transaction; refreshed: the exchange brought a
\* refresh token.  Rows of other accounts with the address are
\* disconnected, the account's own row becomes the active one.
Connect(q, refreshed) ==
    LET subject == requests[q].subject
        email == flows[FlowOf(q)].email
        conflicting == OfEmail(email) \ {subject}
    IN  /\ At(q, "verified")
        /\ FlowOf(q) \in DriveFlows
        /\ ConnectionUnchanged(q)
        /\ CredentialAvailable(q, refreshed)
        /\ rows' = [s \in Subjects |->
               CASE s = subject ->
                        [email |-> email, generation |-> connection.generation, active |-> TRUE,
                         credential |-> IF refreshed THEN Token(q) ELSE rows[s].credential,
                         authorization |-> FlowOf(q)]
                 [] s \in conflicting -> Disconnected(rows[s])
                 [] OTHER -> rows[s]]
        /\ WithholdAll(conflicting \cup {subject})
        /\ Answer(q, requests[q].session)
        /\ UNCHANGED <<google, flows, sessions, users, connection, asking>>

\* Connection changed, no credential, or it cannot be encrypted.
RefuseConnect(q) ==
    /\ At(q, "verified")
    /\ FlowOf(q) \in DriveFlows
    /\ Answer(q, requests[q].session)
    /\ UNCHANGED <<google, flows, sessions, users, tables>>

\* The session middleware saves the request's copy once more.
Close(q) ==
    /\ At(q, "closing")
    /\ KeyIsLive(q)
    /\ sessions' = [sessions EXCEPT ![requests[q].browser] = requests[q].session]
    /\ End(q)
    /\ UNCHANGED <<google, flows, users, tables>>

\* disconnect_authorization commits the denial and keeps the decrypted
\* credentials in memory for the revocation.
Disconnect(q, b) ==
    /\ requests[q] = None
    /\ sessions[b].user # None
    /\ connection.serves
    /\ LET mine == OfEmail(users[sessions[b].user])
       IN  /\ rows' = [s \in Subjects |-> IF s \in mine THEN Disconnected(rows[s]) ELSE rows[s]]
           /\ WithholdAll(mine)
           /\ requests' = [requests EXCEPT ![q] =
                  [NewRequest("revoking", b, Anonymous) EXCEPT
                      !.credentials = {rows[s].credential : s \in mine} \ {None}]]
    /\ UNCHANGED <<google, flows, sessions, users, connection, asking>>

\* Best effort, after the commit and after the relationships were deleted.
RevokeCredentials(q) ==
    /\ At(q, "revoking")
    /\ revoked' = revoked \cup requests[q].credentials
    /\ End(q)
    /\ UNCHANGED <<directory, issued, codes, flows, sessions, users, tables>>

\* A process dies, Google does not answer the revocation, a save finds its
\* session gone, or the response is an error the middleware does not save.
Abandon(q) ==
    /\ requests[q] # None
    /\ End(q)
    /\ UNCHANGED <<google, flows, sessions, users, tables>>

\* switch_permission_authority: deny and disconnect all in one transaction;
\* later the per-user authority is activated (again).
CutoverDeny ==
    /\ connection.generation < MaxGeneration
    /\ connection' = [generation |-> connection.generation + 1, serves |-> FALSE]
    /\ rows' = [s \in Subjects |-> IF rows[s] = None THEN None ELSE Disconnected(rows[s])]
    /\ WithholdAll(Subjects)
    /\ UNCHANGED <<google, flows, sessions, users, asking, requests>>

CutoverActivate ==
    /\ ~connection.serves
    /\ connection' = [connection EXCEPT !.serves = TRUE]
    /\ UNCHANGED <<google, flows, sessions, users, rows, asking, evidence, requests>>

-----------------------------------------------------------------------------
(* The visibility runs of the accounts (UserVisibility has their steps)    *)

VisibilityUnchanged ==
    UNCHANGED <<google, flows, sessions, users, connection, rows, requests>>

\* _validate_scope, as far as it reads the row and the connection.
Ready(s) ==
    /\ rows[s] # None
    /\ rows[s].active
    /\ rows[s].generation = connection.generation
    /\ connection.serves

\* Deny what there is, validate the run, then ask Google with the credential
\* of the authorization the account has at this moment.
AskVisibility(s) ==
    /\ Ready(s)
    /\ asking' = asking \cup {<<s, rows[s].authorization>>}
    /\ WithholdAll({s})
    /\ VisibilityUnchanged

\* Mutant: whoever is connected by now gets what the run asked for.
RunHoldsForAccount(s, f) == Ready(s)

\* The commit locks the row and validates the run against it again: the
\* account may have connected anew meanwhile.
RunHolds(s, f) == Ready(s) /\ rows[s].authorization = f

\* Mutant: the run trusts the row it read when it started.
RecordEvidenceUnchecked(s, f) ==
    /\ <<s, f>> \in asking
    /\ evidence' = [evidence EXCEPT ![s] = f]
    /\ asking' = asking \ {<<s, f>>}
    /\ VisibilityUnchanged

RecordEvidence(s, f) ==
    /\ <<s, f>> \in asking
    /\ RunHolds(s, f)
    /\ evidence' = [evidence EXCEPT ![s] = f]
    /\ asking' = asking \ {<<s, f>>}
    /\ VisibilityUnchanged

\* The run fails, is refused or loses its worker.
RunEnds(s, f) ==
    /\ <<s, f>> \in asking
    /\ asking' = asking \ {<<s, f>>}
    /\ UNCHANGED evidence
    /\ VisibilityUnchanged

\* A run that is refused later has denied first, whatever its generation; the
\* sweeper and the user cap deny too.
Withhold(s) ==
    /\ evidence[s] # None
    /\ WithholdAll({s})
    /\ UNCHANGED asking
    /\ VisibilityUnchanged

-----------------------------------------------------------------------------
Callback(q) ==
    \/ AcceptState(q) \/ RefuseState(q)
    \/ Exchange(q) \/ ExchangeFails(q)
    \/ CheckConflict(q) \/ RefuseConflict(q) \/ SessionUser(q) \/ RefuseUser(q)
    \/ \E refreshed \in BOOLEAN : Connect(q, refreshed)
    \/ RefuseConnect(q)
    \/ Close(q)

Next ==
    \/ \E b \in Browsers, f \in LoginFlows : BeginSessionAuthorization(b, f)
    \/ \E b \in Browsers, f \in DriveFlows : BeginAuthorization(b, f)
    \/ \E f \in Flows, s \in Subjects : Consent(f, s)
    \/ \E s \in Subjects, e \in Emails \cup {None} : MoveAddress(s, e)
    \/ \E q \in Requests, b \in Browsers, f \in Flows, s \in Subjects : OpenCallback(q, b, f, s)
    \/ \E q \in Requests : Callback(q) \/ RevokeCredentials(q) \/ Abandon(q)
    \/ \E q \in Requests, b \in Browsers : Disconnect(q, b)
    \/ CutoverDeny \/ CutoverActivate
    \/ \E s \in Subjects : AskVisibility(s) \/ Withhold(s)
    \/ \E s \in Subjects, f \in Flows : RecordEvidence(s, f) \/ RunEnds(s, f)

Spec == Init /\ [][Next]_vars

-----------------------------------------------------------------------------
TypeOK ==
    /\ directory \in [Subjects -> Emails \cup {None}]
    /\ issued \subseteq Consents
    /\ codes \subseteq issued
    /\ revoked \subseteq Consents
    /\ flows \in [Flows -> FlowRecords]
    /\ sessions \in [Browsers -> SessionRecords]
    /\ users \in [Subjects -> Emails \cup {None}]
    /\ connection \in [generation : Generations, serves : BOOLEAN]
    /\ rows \in [Subjects -> AuthorizationRows \cup {None}]
    /\ asking \subseteq Subjects \X Flows
    /\ evidence \in [Subjects -> Flows \cup {None}]
    /\ requests \in [Requests -> RequestRecords \cup {None}]

IsActive(s) == rows[s] # None /\ rows[s].active

\* One address has one active authorization, whichever accounts had the
\* address one after another and however their callbacks overlap
\* (complete_authorization disconnects the others under the connection lock).
OneActivePerEmail ==
    \A s, t \in Subjects :
        IsActive(s) /\ IsActive(t) /\ rows[s].email = rows[t].email => s = t

\* An active authorization stands on a consent of its own account, given in a
\* flow that a session of its address began, under the generation that the
\* connection still has: no cutover lies between beginning and now.
ActiveIsConsented ==
    \A s \in Subjects : IsActive(s) =>
        LET f == rows[s].authorization
        IN  /\ f # None
            /\ <<f, s>> \in issued
            /\ f \in DriveFlows
            /\ flows[f].email = rows[s].email
            /\ flows[f].generation = connection.generation
            /\ rows[s].generation = connection.generation

\* A browser is logged in as an account only if that account consented to a
\* login that this very browser began, however callbacks are opened.
SessionIsProved ==
    \A b \in Browsers : sessions[b].user # None =>
        \E f \in LoginFlows :
            /\ flows[f].browser = b
            /\ <<f, sessions[b].user>> \in issued

\* A session never carries a Drive flow that a user of another address began: a
\* login as somebody else throws the flow away, and a late save of an older copy
\* of the session, by a callback that was waiting for Google, brings back flow
\* and user together or nothing.
StoredFlowIsOwn ==
    \A b \in Browsers :
        LET f == sessions[b].stored["drive"]
        IN  f # None => /\ sessions[b].user # None
                        /\ flows[f].email = users[sessions[b].user]

\* A credential that a disconnect revokes, or still holds for revocation while
\* the user connects again, is in no row: the late revocation of
\* disconnect_authorization never hits the token of a newer connection.
RevokedIsNotHeld ==
    \A s \in Subjects : rows[s] # None /\ rows[s].credential # None =>
        /\ rows[s].credential \notin revoked
        /\ \A q \in Requests : At(q, "revoking") => rows[s].credential \notin requests[q].credentials

\* Only active rows have verified evidence and credentials: a row displaced by
\* another account's connect, a disconnect or a cutover keeps neither, and the
\* commit of a run that was in flight gives it neither.
InactiveHoldsNothing ==
    \A s \in Subjects : ~IsActive(s) =>
        evidence[s] = None /\ (rows[s] # None => rows[s].credential = None)

\* Verified evidence was asked for with the authorization the account has now,
\* consented to under the present address and generation, and no other account
\* that had the address has any: a run that spans a reconnect, another account's
\* connect or a cutover and its reactivation leaves nothing behind.
EvidenceIsOfPresentConsent ==
    \A s \in Subjects : evidence[s] # None =>
        /\ rows[s] # None
        /\ rows[s].authorization = evidence[s]
        /\ flows[evidence[s]].email = rows[s].email
        /\ flows[evidence[s]].generation = connection.generation
        /\ connection.serves
        /\ \A t \in OfEmail(rows[s].email) \ {s} : evidence[t] = None

=============================================================================
