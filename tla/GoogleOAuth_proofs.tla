-------------------------- MODULE GoogleOAuth_proofs --------------------------
(* Proofs about GoogleOAuth, for any number of browsers, requests, flows,   *)
(* accounts and addresses and any bounds.                                   *)
EXTENDS GoogleOAuth, TLAPS

\* What a session of browser b may hold, as a row of django_session or as the
\* copy of a request: a user who logged in in this browser, flows that began
\* in it, and a Drive flow only of its user.
Held(b, session, consents, began, known) ==
    /\ session.user # None =>
           /\ known[session.user] # None
           /\ \E f \in LoginFlows : began[f].browser = b /\ <<f, session.user>> \in consents
    /\ \A k \in Kinds : session.stored[k] # None => began[session.stored[k]].browser = b
    /\ session.stored["drive"] # None =>
           /\ session.user # None
           /\ began[session.stored["drive"]].email = known[session.user]

\* What a request knows at each step.
Known(r, consents, began, known) ==
    /\ Held(r.browser, r.session, consents, began, known)
    /\ r.step \in {"opened", "accepted", "verified", "checked"} =>
           <<r.flow, r.subject>> \in consents
    /\ r.step \in {"accepted", "verified", "checked"} => began[r.flow].browser = r.browser
    /\ r.step \in {"verified", "checked"} => r.email \in Emails
    /\ r.step = "verified" /\ r.flow \in DriveFlows => began[r.flow].email = r.email
    /\ r.step = "checked" => r.flow \in LoginFlows

\* Consents are answers to flows that began.
IssuedBegun == \A c \in issued : flows[c[1]].browser # None

SessionsHeld == \A b \in Browsers : Held(b, sessions[b], issued, flows, users)

RequestsKnow ==
    \A q \in Requests : requests[q] # None => Known(requests[q], issued, flows, users)

\* Nothing that was begun, consented to or made a user is taken back.
Grows(consents, began, known, consents2, began2, known2) ==
    /\ consents \subseteq consents2
    /\ \A f \in Flows : began[f].browser # None => began2[f] = began[f]
    /\ \A s \in Subjects : known[s] # None => known2[s] = known[s]

LEMMA HeldStays ==
  ASSUME NEW b \in Browsers, NEW session \in SessionRecords,
         NEW consents, NEW began, NEW known, NEW consents2, NEW began2, NEW known2,
         Grows(consents, began, known, consents2, began2, known2),
         Held(b, session, consents, began, known)
  PROVE  Held(b, session, consents2, began2, known2)
  <1>1. b # None
    BY NoneAssumption
  <1>2. session.user \in Subjects \cup {None} /\ session.stored \in [Kinds -> Flows \cup {None}]
    BY DEF SessionRecords
  <1>3. ASSUME session.user # None
        PROVE  /\ known2[session.user] = known[session.user]
               /\ known2[session.user] # None
               /\ \E f \in LoginFlows :
                      began2[f].browser = b /\ <<f, session.user>> \in consents2
    <2>1. known2[session.user] = known[session.user] /\ known[session.user] # None
      BY <1>2, <1>3 DEF Held, Grows
    <2>2. PICK f \in LoginFlows : began[f].browser = b /\ <<f, session.user>> \in consents
      BY <1>3 DEF Held
    <2>3. began2[f] = began[f] /\ <<f, session.user>> \in consents2
      BY <1>1, <2>2 DEF Grows, Flows
    <2> QED
      BY <2>1, <2>2, <2>3
  <1>4. ASSUME NEW k \in Kinds, session.stored[k] # None
        PROVE  began2[session.stored[k]] = began[session.stored[k]]
               /\ began[session.stored[k]].browser = b
    BY <1>1, <1>2, <1>4 DEF Held, Grows
  <1>5. "drive" \in Kinds
    BY DEF Kinds
  <1>6. session.stored["drive"] # None =>
            /\ session.user # None
            /\ began2[session.stored["drive"]].email = known2[session.user]
    BY <1>3, <1>4, <1>5 DEF Held
  <1> QED
    BY <1>3, <1>4, <1>6 DEF Held

LEMMA KnownStays ==
  ASSUME NEW r \in RequestRecords, r.flow \in Flows \/ r.step \in {"closing", "revoking"},
         NEW consents, NEW began, NEW known, NEW consents2, NEW began2, NEW known2,
         Grows(consents, began, known, consents2, began2, known2),
         Known(r, consents, began, known)
  PROVE  Known(r, consents2, began2, known2)
  <1>1. r.browser \in Browsers /\ r.session \in SessionRecords /\ r.browser # None
    BY NoneAssumption DEF RequestRecords
  <1>2. Held(r.browser, r.session, consents2, began2, known2)
    BY <1>1, HeldStays DEF Known
  <1>3. r.step \in {"accepted", "verified", "checked"} => began2[r.flow] = began[r.flow]
    BY <1>1 DEF Known, Grows
  <1> QED
    BY <1>2, <1>3 DEF Known, Grows

\* Every consent is of a flow and an account.
LEMMA ConsentParts ==
  ASSUME NEW f, NEW s, <<f, s>> \in Consents
  PROVE  f \in Flows /\ s \in Subjects
  BY DEF Consents

-----------------------------------------------------------------------------
(* What one step does to the requests and the sessions                     *)

Growth == Grows(issued, flows, users, issued', flows', users')

LEMMA SameGrows == UNCHANGED <<issued, flows, users>> => Growth
  BY DEF Growth, Grows

LEMMA FlowKnown ==
  ASSUME TypeOK, NEW q \in Requests, requests[q] # None, Known(requests[q], issued, flows, users)
  PROVE  /\ requests[q] \in RequestRecords
         /\ requests[q].flow \in Flows \/ requests[q].step \in {"closing", "revoking"}
  <1>1. requests[q] \in RequestRecords
    BY DEF TypeOK
  <1>2. requests[q].step \in Steps
    BY <1>1 DEF RequestRecords
  <1>3. ASSUME requests[q].step \in {"opened", "accepted", "verified", "checked"}
        PROVE  requests[q].flow \in Flows
    <2>1. <<requests[q].flow, requests[q].subject>> \in Consents
      BY <1>3 DEF Known, TypeOK
    <2> QED
      BY <2>1, ConsentParts
  <1> QED
    BY <1>1, <1>2, <1>3 DEF Steps

LEMMA RequestStep ==
  ASSUME TypeOK, RequestsKnow, Growth, NEW q \in Requests,
         NEW r, r \in RequestRecords \cup {None},
         requests' = [requests EXCEPT ![q] = r],
         r # None => Known(r, issued', flows', users')
  PROVE  requests' \in [Requests -> RequestRecords \cup {None}] /\ RequestsKnow'
  <1>1. requests \in [Requests -> RequestRecords \cup {None}]
    BY DEF TypeOK
  <1>2. requests' \in [Requests -> RequestRecords \cup {None}]
    BY <1>1
  <1>3. ASSUME NEW p \in Requests, requests'[p] # None
        PROVE  Known(requests'[p], issued', flows', users')
    <2>1. CASE p = q
      BY <1>1, <1>3, <2>1
    <2>2. CASE p # q
      <3>1. requests'[p] = requests[p] /\ Known(requests[p], issued, flows, users)
        BY <1>1, <1>3, <2>2 DEF RequestsKnow
      <3> QED
        BY <1>3, <3>1, FlowKnown, KnownStays DEF Growth
    <2> QED
      BY <2>1, <2>2
  <1> QED
    BY <1>2, <1>3 DEF RequestsKnow

LEMMA RequestsStay ==
  ASSUME TypeOK, RequestsKnow, Growth, requests' = requests
  PROVE  RequestsKnow'
  <1>1. ASSUME NEW p \in Requests, requests'[p] # None
        PROVE  Known(requests'[p], issued', flows', users')
    <2>1. Known(requests[p], issued, flows, users) /\ requests[p] # None
      BY <1>1 DEF RequestsKnow
    <2> QED
      BY <2>1, FlowKnown, KnownStays DEF Growth
  <1> QED
    BY <1>1 DEF RequestsKnow

LEMMA SessionStep ==
  ASSUME TypeOK, SessionsHeld, Growth, NEW b \in Browsers, NEW x \in SessionRecords,
         sessions' = [sessions EXCEPT ![b] = x],
         Held(b, x, issued', flows', users')
  PROVE  sessions' \in [Browsers -> SessionRecords] /\ SessionsHeld'
  <1>1. sessions \in [Browsers -> SessionRecords]
    BY DEF TypeOK
  <1>2. ASSUME NEW c \in Browsers
        PROVE  Held(c, sessions'[c], issued', flows', users')
    <2>1. CASE c = b
      BY <1>1, <2>1
    <2>2. CASE c # b
      BY <1>1, <2>2, HeldStays DEF SessionsHeld, Growth
    <2> QED
      BY <2>1, <2>2
  <1> QED
    BY <1>1, <1>2 DEF SessionsHeld

LEMMA SessionsStay ==
  ASSUME TypeOK, SessionsHeld, Growth, sessions' = sessions
  PROVE  SessionsHeld'
  BY HeldStays DEF SessionsHeld, Growth, TypeOK

\* A request that only has to answer knows what its session holds.
LEMMA AnswerKnown ==
  ASSUME NEW b \in Browsers, NEW x \in SessionRecords, NEW consents, NEW began, NEW known,
         NEW step \in {"closing", "revoking"}, Held(b, x, consents, began, known)
  PROVE  /\ NewRequest(step, b, x) \in RequestRecords
         /\ Known(NewRequest(step, b, x), consents, began, known)
  BY DEF NewRequest, RequestRecords, Steps, Known

LEMMA AnonymousHeld ==
  ASSUME NEW b, NEW consents, NEW began, NEW known
  PROVE  Anonymous \in SessionRecords /\ Held(b, Anonymous, consents, began, known)
  BY DEF Anonymous, SessionRecords, Keys, Kinds, Held

LEMMA AnswerStep ==
  ASSUME TypeOK, RequestsKnow, Growth, NEW q \in Requests, requests[q] # None,
         NEW x \in SessionRecords, Answer(q, x),
         Held(requests[q].browser, x, issued', flows', users')
  PROVE  requests' \in [Requests -> RequestRecords \cup {None}] /\ RequestsKnow'
  <1>1. requests[q].browser \in Browsers
    BY DEF TypeOK, RequestRecords
  <1> DEFINE r == NewRequest("closing", requests[q].browser, x)
  <1>2. r \in RequestRecords /\ Known(r, issued', flows', users')
    BY <1>1, AnswerKnown
  <1>3. requests' = [requests EXCEPT ![q] = r]
    BY DEF Answer
  <1> HIDE DEF r
  <1> QED
    BY <1>2, <1>3, RequestStep

LEMMA EndStep ==
  ASSUME TypeOK, RequestsKnow, Growth, NEW q \in Requests, End(q)
  PROVE  requests' \in [Requests -> RequestRecords \cup {None}] /\ RequestsKnow'
  BY RequestStep DEF End

-----------------------------------------------------------------------------
(* Types, sessions and requests, action by action                          *)

FlowInv == TypeOK /\ IssuedBegun /\ SessionsHeld /\ RequestsKnow

LEMMA InitFlow == Init => FlowInv
  <1> SUFFICES ASSUME Init PROVE FlowInv
    OBVIOUS
  <1>1. sessions \in [Browsers -> SessionRecords] /\ SessionsHeld
    BY AnonymousHeld DEF Init, SessionsHeld
  <1>2. flows \in [Flows -> FlowRecords]
    BY BoundsAssumption DEF Init, NewFlow, FlowRecords, Generations
  <1>3. connection \in [generation : Generations, serves : BOOLEAN]
    BY BoundsAssumption DEF Init, Generations
  <1>4. rows \in [Subjects -> AuthorizationRows \cup {None}]
    BY DEF Init
  <1>5. requests \in [Requests -> RequestRecords \cup {None}] /\ RequestsKnow
    BY DEF Init, RequestsKnow
  <1>6. directory \in [Subjects -> Emails \cup {None}] /\ users \in [Subjects -> Emails \cup {None}]
    BY DirectoryAssumption DEF Init
  <1> QED
    BY <1>1, <1>2, <1>3, <1>4, <1>5, <1>6 DEF Init, FlowInv, TypeOK, IssuedBegun

\* Both flows begin alike; a Drive flow carries the address of its user.
LEMMA BeginFlow ==
  ASSUME FlowInv, NEW b \in Browsers, NEW f \in Flows, NEW email \in Emails \cup {None},
         NEW generation \in Generations, Begin(b, f, email, generation),
         f \in DriveFlows =>
             sessions[b].user # None /\ email = users[sessions[b].user],
         UNCHANGED <<google, users, tables, requests>>
  PROVE  FlowInv'
  <1> USE DEF FlowInv
  <1> DEFINE x == [sessions[b] EXCEPT !.key = <<f, "begin">>, !.stored[KindOf(f)] = f]
  <1>1. sessions[b] \in SessionRecords /\ Held(b, sessions[b], issued, flows, users)
    BY DEF TypeOK, SessionsHeld
  <1>2. /\ sessions[b].stored \in [Kinds -> Flows \cup {None}] /\ KindOf(f) \in Kinds
        /\ <<f, "begin">> \in Keys /\ sessions[b].user \in Subjects \cup {None}
    BY <1>1 DEF SessionRecords, KindOf, Kinds, Keys
  <1>3. /\ x \in SessionRecords
        /\ x.user = sessions[b].user
        /\ x.stored = [sessions[b].stored EXCEPT ![KindOf(f)] = f]
    BY <1>1, <1>2 DEF SessionRecords
  <1>4. sessions' = [sessions EXCEPT ![b] = x]
    BY DEF Begin, TypeOK
  <1>5. /\ flows' \in [Flows -> FlowRecords]
        /\ flows'[f] = [browser |-> b, email |-> email, generation |-> generation]
        /\ \A g \in Flows : g # f => flows'[g] = flows[g]
    <2>1. flows \in [Flows -> FlowRecords]
      BY DEF TypeOK
    <2>2. [browser |-> b, email |-> email, generation |-> generation] \in FlowRecords
      BY DEF FlowRecords
    <2> QED
      BY <2>1, <2>2 DEF Begin
  <1>6. Growth
    BY <1>5 DEF Growth, Grows, Begin, google
  <1>7. Held(b, sessions[b], issued', flows', users')
    BY <1>1, <1>6, HeldStays DEF Growth
  <1>8. Held(b, x, issued', flows', users')
    <2>1. ASSUME NEW k \in Kinds, x.stored[k] # None
          PROVE  flows'[x.stored[k]].browser = b
      <3>1. CASE k = KindOf(f)
        BY <1>2, <1>3, <1>5, <3>1
      <3>2. CASE k # KindOf(f)
        BY <1>2, <1>3, <1>7, <2>1, <3>2 DEF Held
      <3> QED
        BY <3>1, <3>2
    <2>2. ASSUME x.stored["drive"] # None
          PROVE  /\ x.user # None
                 /\ flows'[x.stored["drive"]].email = users'[x.user]
      <3>1. CASE KindOf(f) = "drive"
        <4>1. f \in DriveFlows /\ x.stored["drive"] = f
          BY <1>2, <1>3, <3>1 DEF KindOf, Flows
        <4> QED
          BY <1>3, <1>5, <4>1
      <3>2. CASE KindOf(f) # "drive"
        <4>1. x.stored["drive"] = sessions[b].stored["drive"]
          BY <1>2, <1>3, <3>2 DEF Kinds
        <4> QED
          BY <1>3, <1>7, <2>2, <4>1 DEF Held
      <3> QED
        BY <3>1, <3>2
    <2>3. x.user # None =>
              /\ users'[x.user] # None
              /\ \E g \in LoginFlows : flows'[g].browser = b /\ <<g, x.user>> \in issued'
      BY <1>3, <1>7 DEF Held
    <2> HIDE DEF x
    <2> QED
      BY <2>1, <2>2, <2>3 DEF Held
  <1>9. sessions' \in [Browsers -> SessionRecords] /\ SessionsHeld'
    <2> HIDE DEF x
    <2> QED
      BY <1>3, <1>4, <1>6, <1>8, SessionStep
  <1>10. RequestsKnow'
    BY <1>6, RequestsStay
  <1>11. IssuedBegun'
    <2>1. \A c \in issued : c[1] \in Flows
      BY DEF TypeOK, Consents
    <2> QED
      BY <1>6, <2>1 DEF IssuedBegun, Growth, Grows, google
  <1> QED
    BY <1>5, <1>9, <1>10, <1>11 DEF TypeOK, google, tables

LEMMA BeginSteps ==
  ASSUME FlowInv, NEW b \in Browsers, NEW f \in Flows,
         \/ f \in LoginFlows /\ BeginSessionAuthorization(b, f)
         \/ f \in DriveFlows /\ BeginAuthorization(b, f)
  PROVE  FlowInv'
  <1>1. CASE f \in LoginFlows /\ BeginSessionAuthorization(b, f)
    <2>1. f \notin DriveFlows /\ 0 \in Generations
      BY <1>1, FlowAssumption, BoundsAssumption DEF Generations
    <2> QED
      BY <1>1, <2>1, BeginFlow DEF BeginSessionAuthorization
  <1>2. CASE f \in DriveFlows /\ BeginAuthorization(b, f)
    <2>1. /\ users[sessions[b].user] \in Emails \cup {None}
          /\ connection.generation \in Generations
      BY <1>2 DEF FlowInv, TypeOK, SessionRecords, BeginAuthorization
    <2> QED
      BY <1>2, <2>1, BeginFlow DEF BeginAuthorization
  <1> QED
    BY <1>1, <1>2

LEMMA GoogleSteps ==
  ASSUME FlowInv,
         \/ \E f \in Flows, s \in Subjects : Consent(f, s)
         \/ \E s \in Subjects, e \in Emails \cup {None} : MoveAddress(s, e)
  PROVE  FlowInv'
  <1> USE DEF FlowInv
  <1>1. ASSUME NEW f \in Flows, NEW s \in Subjects, Consent(f, s)
        PROVE  FlowInv'
    <2>1. Growth
      BY <1>1 DEF Consent, Growth, Grows
    <2>2. SessionsHeld' /\ RequestsKnow'
      BY <1>1, <2>1, SessionsStay, RequestsStay DEF Consent
    <2>3. issued' \subseteq Consents /\ codes' \subseteq issued'
      BY <1>1 DEF Consent, TypeOK, Consents
    <2>4. IssuedBegun'
      BY <1>1 DEF Consent, IssuedBegun
    <2> QED
      BY <1>1, <2>2, <2>3, <2>4 DEF Consent, TypeOK, tables
  <1>2. ASSUME NEW s \in Subjects, NEW e \in Emails \cup {None}, MoveAddress(s, e)
        PROVE  FlowInv'
    <2>1. Growth
      BY <1>2, SameGrows DEF MoveAddress
    <2>2. SessionsHeld' /\ RequestsKnow'
      BY <1>2, <2>1, SessionsStay, RequestsStay DEF MoveAddress
    <2>3. directory' \in [Subjects -> Emails \cup {None}]
      BY <1>2 DEF MoveAddress, TypeOK
    <2> QED
      BY <1>2, <2>2, <2>3 DEF MoveAddress, TypeOK, tables, IssuedBegun
  <1> QED
    BY <1>1, <1>2

\* The tables that types, sessions and requests do not read.
TablesTyped ==
    /\ connection \in [generation : Generations, serves : BOOLEAN]
    /\ rows \in [Subjects -> AuthorizationRows \cup {None}]
    /\ asking \subseteq Subjects \X Flows
    /\ evidence \in [Subjects -> Flows \cup {None}]

LEMMA WithheldTyped ==
  ASSUME TypeOK, NEW accounts, WithholdAll(accounts)
  PROVE  evidence' \in [Subjects -> Flows \cup {None}]
  BY DEF TypeOK, WithholdAll

\* A step that changes only requests, and codes by spending.
LEMMA RequestOnly ==
  ASSUME FlowInv,
         requests' \in [Requests -> RequestRecords \cup {None}], RequestsKnow',
         codes' \subseteq codes, revoked' \subseteq Consents, TablesTyped',
         UNCHANGED <<directory, issued, flows, sessions, users>>
  PROVE  FlowInv'
  <1>1. SessionsHeld'
    BY SameGrows, SessionsStay DEF FlowInv
  <1>2. IssuedBegun'
    BY DEF FlowInv, IssuedBegun
  <1> QED
    BY <1>1, <1>2 DEF FlowInv, TypeOK, TablesTyped

\* What a request of the given step is.
LEMMA AtRequest ==
  ASSUME FlowInv, NEW q \in Requests, NEW step \in Steps, At(q, step)
  PROVE  /\ requests[q] # None
         /\ requests[q] \in RequestRecords
         /\ requests[q].step = step
         /\ requests[q].browser \in Browsers
         /\ requests[q].session \in SessionRecords
         /\ requests[q].credentials \subseteq Consents
         /\ Known(requests[q], issued, flows, users)
         /\ Held(requests[q].browser, requests[q].session, issued, flows, users)
         /\ step \in {"opened", "accepted", "verified", "checked"} =>
                /\ Token(q) \in issued
                /\ FlowOf(q) \in Flows
                /\ requests[q].subject \in Subjects
  <1>1. requests[q] \in RequestRecords /\ requests[q] # None /\ requests[q].step = step
    BY DEF FlowInv, TypeOK, At
  <1>2. Known(requests[q], issued, flows, users)
    BY <1>1 DEF FlowInv, RequestsKnow
  <1>3. step \in {"opened", "accepted", "verified", "checked"} => Token(q) \in issued
    BY <1>1, <1>2 DEF Known, Token, FlowOf
  <1>4. Token(q) \in issued => FlowOf(q) \in Flows /\ requests[q].subject \in Subjects
    BY ConsentParts DEF FlowInv, TypeOK, Token
  <1> QED
    BY <1>1, <1>2, <1>3, <1>4 DEF Known, RequestRecords

LEMMA OpenStep ==
  ASSUME FlowInv, NEW q \in Requests, NEW b \in Browsers, NEW f \in Flows, NEW s \in Subjects,
         OpenCallback(q, b, f, s)
  PROVE  FlowInv'
  <1> DEFINE r == [NewRequest("opened", b, sessions[b]) EXCEPT !.flow = f, !.subject = s]
  <1>1. sessions[b] \in SessionRecords /\ Held(b, sessions[b], issued, flows, users)
    BY DEF FlowInv, TypeOK, SessionsHeld
  <1> DEFINE new == NewRequest("opened", b, sessions[b])
  <1>2. /\ new \in RequestRecords
        /\ new.step = "opened" /\ new.browser = b /\ new.session = sessions[b]
    BY <1>1 DEF NewRequest, RequestRecords, Steps
  <1>3. /\ r \in RequestRecords
        /\ r.step = "opened" /\ r.browser = b /\ r.session = sessions[b]
        /\ r.flow = f /\ r.subject = s
    <2> HIDE DEF new
    <2>1. r = [new EXCEPT !.flow = f, !.subject = s]
      BY DEF new
    <2> HIDE DEF r
    <2> QED
      BY <1>2, <2>1 DEF RequestRecords
  <1>4. Known(r, issued, flows, users)
    BY <1>1, <1>3 DEF Known, OpenCallback
  <1>5. requests' = [requests EXCEPT ![q] = r]
    BY DEF OpenCallback
  <1>6. Known(r, issued', flows', users') /\ Growth
    BY <1>4, SameGrows DEF OpenCallback, google
  <1> HIDE DEF r
  <1>7. requests' \in [Requests -> RequestRecords \cup {None}] /\ RequestsKnow'
    BY <1>3, <1>5, <1>6, RequestStep DEF FlowInv
  <1> QED
    BY <1>7, RequestOnly DEF OpenCallback, FlowInv, TypeOK, TablesTyped, google, tables

LEMMA PoppedHeld ==
  ASSUME FlowInv, NEW q \in Requests, At(q, "opened")
  PROVE  /\ Popped(q) \in SessionRecords
         /\ Held(requests[q].browser, Popped(q), issued, flows, users)
  <1> DEFINE old == requests[q].session
             k == KindOf(FlowOf(q))
  <1>1. old \in SessionRecords /\ Held(requests[q].browser, old, issued, flows, users)
    BY AtRequest DEF Steps
  <1>2. k \in Kinds /\ old.stored \in [Kinds -> Flows \cup {None}] /\ "drive" \in Kinds
    BY <1>1 DEF KindOf, Kinds, SessionRecords
  <1>3. /\ Popped(q) \in SessionRecords
        /\ Popped(q).user = old.user
        /\ Popped(q).stored = [old.stored EXCEPT ![k] = None]
    BY <1>1, <1>2 DEF Popped, SessionRecords
  <1>4. \A i \in Kinds : Popped(q).stored[i] # None => Popped(q).stored[i] = old.stored[i]
    BY <1>2, <1>3
  <1> HIDE DEF old, k
  <1> QED
    BY <1>1, <1>2, <1>3, <1>4 DEF Held

LEMMA ConsumeSteps ==
  ASSUME FlowInv, NEW q \in Requests, AcceptState(q) \/ RefuseState(q)
  PROVE  FlowInv'
  <1> DEFINE b == requests[q].browser
             x == Popped(q)
  <1>1. At(q, "opened")
    BY DEF AcceptState, RefuseState, ConsumeState
  <1>2. /\ requests[q] \in RequestRecords /\ b \in Browsers /\ requests[q] # None
        /\ Known(requests[q], issued, flows, users)
        /\ Held(b, requests[q].session, issued, flows, users)
        /\ requests[q].session \in SessionRecords
        /\ FlowOf(q) \in Flows
    BY <1>1, AtRequest DEF Steps
  <1>3. x \in SessionRecords /\ Held(b, x, issued, flows, users)
    BY <1>1, PoppedHeld
  <1>4. Growth /\ Held(b, x, issued', flows', users')
    BY <1>3, SameGrows DEF AcceptState, RefuseState, ConsumeState, google
  <1>5. sessions' = [sessions EXCEPT ![b] = x]
    BY DEF AcceptState, RefuseState, ConsumeState
  <1>6. sessions' \in [Browsers -> SessionRecords] /\ SessionsHeld'
    <2> HIDE DEF x
    <2> QED
      BY <1>2, <1>3, <1>4, <1>5, SessionStep DEF FlowInv
  <1>7. requests' \in [Requests -> RequestRecords \cup {None}] /\ RequestsKnow'
    <2>1. CASE AcceptState(q)
      <3> DEFINE r == [requests[q] EXCEPT !.session = x, !.step = "accepted"]
      <3>1. requests' = [requests EXCEPT ![q] = r]
        BY <2>1 DEF AcceptState, FlowInv, TypeOK
      <3>2. /\ r \in RequestRecords
            /\ r.browser = b /\ r.session = x /\ r.step = "accepted"
            /\ r.flow = requests[q].flow /\ r.subject = requests[q].subject
        BY <1>2, <1>3 DEF RequestRecords, Steps
      <3>3. flows[FlowOf(q)].browser = b
        <4>1. requests[q].session.stored[KindOf(FlowOf(q))] = FlowOf(q)
          BY <2>1 DEF AcceptState, StateMatches
        <4>2. KindOf(FlowOf(q)) \in Kinds /\ FlowOf(q) # None
          BY <1>2, NoneAssumption DEF KindOf, Kinds
        <4> QED
          BY <1>2, <4>1, <4>2 DEF Held
      <3>4. <<r.flow, r.subject>> \in issued
        BY <1>1, <1>2, <3>2 DEF Known, At
      <3>5. Known(r, issued', flows', users')
        <4> HIDE DEF r, x
        <4> QED
          BY <1>4, <2>1, <3>2, <3>3, <3>4
             DEF Known, AcceptState, ConsumeState, FlowOf, google
      <3> HIDE DEF r
      <3> QED
        BY <1>4, <3>1, <3>2, <3>5, RequestStep DEF FlowInv
    <2>2. CASE RefuseState(q)
      <3> HIDE DEF x
      <3>1. Answer(q, x)
        BY <2>2 DEF RefuseState, x
      <3> QED
        BY <1>2, <1>3, <1>4, <3>1, AnswerStep DEF FlowInv
    <2> QED
      BY <2>1, <2>2
  <1> QED
    BY <1>6, <1>7
       DEF FlowInv, TypeOK, IssuedBegun, AcceptState, RefuseState, ConsumeState, google, tables

\* Steps that end in an answer with the session the request has.
LEMMA AnswerSteps ==
  ASSUME FlowInv, NEW q \in Requests,
         ExchangeFails(q) \/ RefuseConflict(q) \/ RefuseUser(q) \/ RefuseConnect(q)
  PROVE  FlowInv'
  <1> USE DEF ExchangeFails, RefuseConflict, RefuseUser, RefuseConnect
  <1>1. PICK step \in Steps : At(q, step)
    BY DEF Steps
  <1>2. /\ requests[q] # None /\ requests[q].session \in SessionRecords
        /\ Held(requests[q].browser, requests[q].session, issued, flows, users)
    BY <1>1, AtRequest
  <1>3. /\ Answer(q, requests[q].session)
        /\ UNCHANGED <<directory, issued, revoked, flows, sessions, users, tables>>
        /\ codes' \subseteq codes
    BY DEF google
  <1>4. Growth /\ Held(requests[q].browser, requests[q].session, issued', flows', users')
    BY <1>2, <1>3, SameGrows
  <1>5. requests' \in [Requests -> RequestRecords \cup {None}] /\ RequestsKnow'
    BY <1>2, <1>3, <1>4, AnswerStep DEF FlowInv
  <1> QED
    BY <1>3, <1>5, RequestOnly DEF FlowInv, TypeOK, TablesTyped, tables

LEMMA ExchangeStep ==
  ASSUME FlowInv, NEW q \in Requests, Exchange(q)
  PROVE  FlowInv'
  <1> DEFINE email == directory[requests[q].subject]
             r == [requests[q] EXCEPT !.step = "verified", !.email = email]
  <1>1. At(q, "accepted")
    BY DEF Exchange
  <1>2. /\ requests[q] \in RequestRecords /\ requests[q] # None
        /\ requests[q].step = "accepted"
        /\ Known(requests[q], issued, flows, users)
        /\ requests[q].subject \in Subjects
    BY <1>1, AtRequest DEF Steps
  <1>3. email \in Emails /\ (FlowOf(q) \in DriveFlows => email = flows[FlowOf(q)].email)
    BY <1>2 DEF Exchange, IdentityMatches, FlowInv, TypeOK
  <1>4. requests' = [requests EXCEPT ![q] = r]
    BY DEF Exchange, FlowInv, TypeOK
  <1>5. /\ r \in RequestRecords
        /\ r.step = "verified" /\ r.email = email /\ r.flow = requests[q].flow
        /\ r.browser = requests[q].browser /\ r.session = requests[q].session
        /\ r.subject = requests[q].subject
    <2> HIDE DEF email
    <2> QED
      BY <1>2, <1>3 DEF RequestRecords, Steps
  <1> HIDE DEF r, email
  <1>6. Known(r, issued', flows', users') /\ Growth
    BY <1>2, <1>3, <1>5, SameGrows DEF Known, Exchange, FlowOf
  <1>7. requests' \in [Requests -> RequestRecords \cup {None}] /\ RequestsKnow'
    BY <1>4, <1>5, <1>6, RequestStep DEF FlowInv
  <1> QED
    BY <1>7, RequestOnly DEF Exchange, FlowInv, TypeOK, TablesTyped, tables

LEMMA CheckStep ==
  ASSUME FlowInv, NEW q \in Requests, CheckConflict(q)
  PROVE  FlowInv'
  <1> DEFINE r == [requests[q] EXCEPT !.step = "checked"]
  <1>1. At(q, "verified") /\ FlowOf(q) \in LoginFlows
    BY DEF CheckConflict
  <1>2. /\ requests[q] \in RequestRecords /\ requests[q].step = "verified"
        /\ Known(requests[q], issued, flows, users)
    BY <1>1, AtRequest DEF Steps
  <1>3. requests' = [requests EXCEPT ![q] = r]
    BY DEF CheckConflict, Goto, FlowInv, TypeOK
  <1>4. /\ r \in RequestRecords
        /\ r.step = "checked" /\ r.email = requests[q].email /\ r.flow = requests[q].flow
        /\ r.browser = requests[q].browser /\ r.session = requests[q].session
        /\ r.subject = requests[q].subject
    BY <1>2 DEF RequestRecords, Steps
  <1> HIDE DEF r
  <1>5. Known(r, issued', flows', users') /\ Growth
    BY <1>1, <1>2, <1>4, SameGrows DEF Known, CheckConflict, FlowOf, google
  <1>6. requests' \in [Requests -> RequestRecords \cup {None}] /\ RequestsKnow'
    BY <1>3, <1>4, <1>5, RequestStep DEF FlowInv
  <1> QED
    BY <1>6, RequestOnly DEF CheckConflict, FlowInv, TypeOK, TablesTyped, google, tables

LEMMA LoginStep ==
  ASSUME FlowInv, NEW q \in Requests, SessionUser(q)
  PROVE  FlowInv'
  <1> DEFINE b == requests[q].browser
             s == requests[q].subject
             f == FlowOf(q)
             old == requests[q].session
             x == LoggedIn(q)
  <1>1. At(q, "checked")
    BY DEF SessionUser
  <1>2. /\ requests[q] # None /\ requests[q].step = "checked"
        /\ b \in Browsers /\ s \in Subjects /\ f \in LoginFlows
        /\ <<f, s>> \in issued /\ flows[f].browser = b
        /\ requests[q].email \in Emails /\ requests[q].email # None
        /\ old \in SessionRecords /\ Held(b, old, issued, flows, users)
    BY <1>1, AtRequest, NoneAssumption DEF Steps, Known, FlowOf, Token
  <1>3. /\ users' \in [Subjects -> Emails \cup {None}]
        /\ users'[s] # None
        /\ \A t \in Subjects : users[t] # None => users'[t] = users[t]
    BY <1>2 DEF SessionUser, FlowInv, TypeOK
  <1>4. Growth
    BY <1>3 DEF Growth, Grows, SessionUser, google
  <1>5. Held(b, old, issued', flows', users')
    BY <1>2, <1>4, HeldStays DEF Growth
  <1>6. <<f, "login">> \in Keys
    BY <1>2 DEF Keys, Flows
  <1>7. x \in SessionRecords /\ x.user = s
    <2>1. old.user \in Subjects \cup {None}
      BY <1>2 DEF SessionRecords
    <2>2. Anonymous \in SessionRecords
      BY AnonymousHeld
    <2> QED
      BY <1>2, <1>6, <2>2 DEF LoggedIn, SessionRecords
  <1>8. \/ x.stored = old.stored /\ old.user \in {None, s}
        \/ \A k \in Kinds : x.stored[k] = None
    BY <1>2, <1>6 DEF LoggedIn, SessionRecords, Anonymous
  <1>9. Held(b, x, issued', flows', users')
    <2>1. \E g \in LoginFlows : flows'[g].browser = b /\ <<g, s>> \in issued'
      BY <1>2 DEF SessionUser, google
    <2>2. "drive" \in Kinds
      BY DEF Kinds
    <2>3. CASE x.stored = old.stored /\ old.user \in {None, s}
      <3> HIDE DEF x, old, b, s
      <3> QED
        BY <1>3, <1>5, <1>7, <2>1, <2>2, <2>3 DEF Held
    <2>4. CASE \A k \in Kinds : x.stored[k] = None
      <3> HIDE DEF x, old, b, s
      <3> QED
        BY <1>3, <1>7, <2>1, <2>2, <2>4 DEF Held
    <2> QED
      BY <1>8, <2>3, <2>4
  <1>10. sessions' = [sessions EXCEPT ![b] = x] /\ Answer(q, x)
    BY DEF SessionUser
  <1> HIDE DEF x
  <1>11. sessions' \in [Browsers -> SessionRecords] /\ SessionsHeld'
    BY <1>2, <1>4, <1>7, <1>9, <1>10, SessionStep DEF FlowInv
  <1>12. requests' \in [Requests -> RequestRecords \cup {None}] /\ RequestsKnow'
    BY <1>2, <1>4, <1>7, <1>9, <1>10, AnswerStep DEF FlowInv
  <1> QED
    BY <1>3, <1>11, <1>12 DEF SessionUser, FlowInv, TypeOK, IssuedBegun, google, tables

LEMMA CloseStep ==
  ASSUME FlowInv, NEW q \in Requests, Close(q)
  PROVE  FlowInv'
  <1> DEFINE b == requests[q].browser
             x == requests[q].session
  <1>1. b \in Browsers /\ x \in SessionRecords /\ Held(b, x, issued, flows, users)
    BY AtRequest DEF Close, Steps
  <1>2. Growth /\ Held(b, x, issued', flows', users')
    BY <1>1, SameGrows DEF Close, google
  <1>3. sessions' = [sessions EXCEPT ![b] = x] /\ End(q)
    BY DEF Close
  <1> HIDE DEF b, x
  <1>4. sessions' \in [Browsers -> SessionRecords] /\ SessionsHeld'
    BY <1>1, <1>2, <1>3, SessionStep DEF FlowInv
  <1>5. requests' \in [Requests -> RequestRecords \cup {None}] /\ RequestsKnow'
    BY <1>2, <1>3, EndStep DEF FlowInv
  <1> QED
    BY <1>4, <1>5 DEF Close, FlowInv, TypeOK, IssuedBegun, google, tables

LEMMA EndSteps ==
  ASSUME FlowInv, NEW q \in Requests, RevokeCredentials(q) \/ Abandon(q)
  PROVE  FlowInv'
  <1>1. revoked' \subseteq Consents
    <2>1. CASE RevokeCredentials(q)
      BY <2>1, AtRequest DEF RevokeCredentials, FlowInv, TypeOK, Steps
    <2>2. CASE Abandon(q)
      BY <2>2 DEF Abandon, FlowInv, TypeOK, google
    <2> QED
      BY <2>1, <2>2
  <1>2. End(q) /\ UNCHANGED <<directory, issued, codes, flows, sessions, users, tables>>
    BY DEF RevokeCredentials, Abandon, google
  <1>3. requests' \in [Requests -> RequestRecords \cup {None}] /\ RequestsKnow'
    BY <1>2, SameGrows, EndStep DEF FlowInv
  <1> QED
    BY <1>1, <1>2, <1>3, RequestOnly DEF FlowInv, TypeOK, TablesTyped, tables

LEMMA DisconnectedRow ==
  ASSUME NEW row \in AuthorizationRows
  PROVE  /\ Disconnected(row) \in AuthorizationRows
         /\ ~ Disconnected(row).active
         /\ Disconnected(row).credential = None
         /\ Disconnected(row).email = row.email
  BY DEF Disconnected, AuthorizationRows

\* The row that a connect writes for the account.
Connected(q, refreshed) ==
    [email |-> flows[FlowOf(q)].email, generation |-> connection.generation, active |-> TRUE,
     credential |-> IF refreshed THEN Token(q) ELSE rows[requests[q].subject].credential,
     authorization |-> FlowOf(q)]

LEMMA ConnectRows ==
  ASSUME FlowInv, NEW q \in Requests, NEW refreshed \in BOOLEAN, Connect(q, refreshed)
  PROVE  LET subject == requests[q].subject
             conflicting == OfEmail(flows[FlowOf(q)].email) \ {subject}
         IN  /\ subject \in Subjects
             /\ Token(q) \in issued
             /\ Connected(q, refreshed) \in AuthorizationRows
             /\ rows' \in [Subjects -> AuthorizationRows \cup {None}]
             /\ rows'[subject] = Connected(q, refreshed)
             /\ \A s \in conflicting :
                    /\ rows[s] # None /\ rows[s] \in AuthorizationRows
                    /\ rows'[s] = Disconnected(rows[s])
             /\ \A s \in Subjects \ (conflicting \cup {subject}) :
                    /\ rows'[s] = rows[s]
                    /\ rows[s] # None => rows[s].email # flows[FlowOf(q)].email
  <1> DEFINE subject == requests[q].subject
             email == flows[FlowOf(q)].email
             conflicting == OfEmail(email) \ {subject}
  <1>1. At(q, "verified") /\ FlowOf(q) \in DriveFlows
    BY DEF Connect
  <1>2. /\ subject \in Subjects /\ Token(q) \in issued /\ FlowOf(q) \in Flows
        /\ email \in Emails
    BY <1>1, AtRequest DEF Steps, Known, FlowOf, At
  <1>3. Token(q) \in Consents /\ Token(q) # None /\ FlowOf(q) # None
    BY <1>2, NoneAssumption DEF FlowInv, TypeOK
  <1>4. rows \in [Subjects -> AuthorizationRows \cup {None}]
        /\ connection.generation \in Generations
    BY DEF FlowInv, TypeOK
  <1>5. refreshed \/ (rows[subject] # None /\ rows[subject].credential # None)
    BY DEF Connect, CredentialAvailable
  <1>6. Connected(q, refreshed) \in AuthorizationRows
    <2>1. ~ refreshed => rows[subject].credential \in Consents /\ rows[subject].credential # None
      BY <1>2, <1>4, <1>5 DEF AuthorizationRows
    <2> DEFINE c == IF refreshed THEN Token(q) ELSE rows[subject].credential
    <2>2. c \in Consents /\ c # None
      BY <1>3, <2>1
    <2>3. Connected(q, refreshed) =
              [email |-> email, generation |-> connection.generation, active |-> TRUE,
               credential |-> c, authorization |-> FlowOf(q)]
      BY Zenon DEF Connected
    <2> HIDE DEF c, email
    <2> QED
      BY <1>2, <1>3, <1>4, <2>2, <2>3 DEF AuthorizationRows
  <1>7. rows' = [s \in Subjects |->
            IF s = subject THEN Connected(q, refreshed)
            ELSE IF s \in conflicting THEN Disconnected(rows[s]) ELSE rows[s]]
    <2>1. ASSUME NEW s \in Subjects
          PROVE  rows'[s] = IF s = subject THEN Connected(q, refreshed)
                 ELSE IF s \in conflicting THEN Disconnected(rows[s]) ELSE rows[s]
      BY <1>2 DEF Connect, Connected
    <2>2. rows' = [s \in Subjects |-> rows'[s]]
      BY DEF Connect
    <2> HIDE DEF subject, conflicting
    <2> QED
      BY <2>1, <2>2
  <1>8. \A s \in Subjects : rows[s] # None => rows[s] \in AuthorizationRows
    BY <1>4
  <1>9. \A s \in Subjects : s \in conflicting <=>
            s # subject /\ rows[s] # None /\ rows[s].email = email
    BY DEF OfEmail
  <1>10. conflicting \subseteq Subjects
    BY DEF OfEmail
  <1> HIDE DEF subject, email, conflicting
  <1>11. rows' \in [Subjects -> AuthorizationRows \cup {None}]
    BY <1>4, <1>6, <1>7, <1>8, <1>9, DisconnectedRow
  <1>12. /\ subject \in Subjects
         /\ Token(q) \in issued
         /\ rows'[subject] = Connected(q, refreshed)
         /\ \A s \in conflicting :
                rows[s] # None /\ rows[s] \in AuthorizationRows /\ rows'[s] = Disconnected(rows[s])
         /\ \A s \in Subjects \ (conflicting \cup {subject}) :
                rows'[s] = rows[s] /\ (rows[s] # None => rows[s].email # email)
    BY <1>2, <1>7, <1>8, <1>9, <1>10
  <1> QED
    BY <1>6, <1>11, <1>12 DEF subject, email, conflicting

LEMMA ConnectStep ==
  ASSUME FlowInv, NEW q \in Requests, NEW refreshed \in BOOLEAN, Connect(q, refreshed)
  PROVE  FlowInv'
  <1>1. /\ requests[q] # None /\ requests[q].session \in SessionRecords
        /\ Held(requests[q].browser, requests[q].session, issued, flows, users)
    BY AtRequest DEF Connect, Steps
  <1>2. Growth /\ Held(requests[q].browser, requests[q].session, issued', flows', users')
    BY <1>1, SameGrows DEF Connect, google
  <1>3. requests' \in [Requests -> RequestRecords \cup {None}] /\ RequestsKnow'
    BY <1>1, <1>2, AnswerStep DEF FlowInv, Connect
  <1>4. rows' \in [Subjects -> AuthorizationRows \cup {None}]
    BY ConnectRows
  <1>5. evidence' \in [Subjects -> Flows \cup {None}]
    BY WithheldTyped DEF Connect, FlowInv
  <1> QED
    BY <1>3, <1>4, <1>5, RequestOnly DEF Connect, FlowInv, TypeOK, TablesTyped, google

LEMMA DisconnectStep ==
  ASSUME FlowInv, NEW q \in Requests, NEW b \in Browsers, Disconnect(q, b)
  PROVE  FlowInv'
  <1> DEFINE mine == OfEmail(users[sessions[b].user])
             tokens == {rows[s].credential : s \in mine} \ {None}
             new == NewRequest("revoking", b, Anonymous)
             r == [new EXCEPT !.credentials = tokens]
  <1>1. rows \in [Subjects -> AuthorizationRows \cup {None}]
    BY DEF FlowInv, TypeOK
  <1>2. \A s \in mine : s \in Subjects /\ rows[s] \in AuthorizationRows
    BY <1>1 DEF OfEmail
  <1>3. tokens \subseteq Consents
    BY <1>2 DEF AuthorizationRows
  <1>4. new \in RequestRecords /\ Known(new, issued, flows, users)
    BY AnswerKnown, AnonymousHeld
  <1>5. new.step = "revoking"
    BY DEF NewRequest
  <1>6. requests' = [requests EXCEPT ![q] = r]
    BY DEF Disconnect
  <1>7. /\ r \in RequestRecords
        /\ r.step = "revoking" /\ r.browser = new.browser /\ r.session = new.session
    <2> HIDE DEF tokens, new
    <2> QED
      BY <1>3, <1>4, <1>5 DEF RequestRecords
  <1>8. Known(r, issued', flows', users') /\ Growth
    <2> HIDE DEF r, new
    <2> QED
      BY <1>4, <1>7, SameGrows DEF Known, Disconnect, google
  <1>9. requests' \in [Requests -> RequestRecords \cup {None}] /\ RequestsKnow'
    <2> HIDE DEF r
    <2> QED
      BY <1>6, <1>7, <1>8, RequestStep DEF FlowInv
  <1>10. rows' \in [Subjects -> AuthorizationRows \cup {None}]
    <2>1. rows' = [s \in Subjects |-> IF s \in mine THEN Disconnected(rows[s]) ELSE rows[s]]
      BY DEF Disconnect
    <2> HIDE DEF mine
    <2> QED
      BY <1>1, <1>2, <2>1, DisconnectedRow
  <1>11. evidence' \in [Subjects -> Flows \cup {None}]
    BY WithheldTyped DEF Disconnect, FlowInv
  <1> QED
    BY <1>9, <1>10, <1>11, RequestOnly DEF Disconnect, FlowInv, TypeOK, TablesTyped, google

LEMMA TableSteps ==
  ASSUME FlowInv, CutoverDeny \/ CutoverActivate
  PROVE  FlowInv'
  <1>1. UNCHANGED <<google, flows, sessions, users, requests>>
    BY DEF CutoverDeny, CutoverActivate
  <1>2. RequestsKnow'
    BY <1>1, SameGrows, RequestsStay DEF FlowInv, google
  <1>3. connection' \in [generation : Generations, serves : BOOLEAN]
    <2>1. connection \in [generation : Generations, serves : BOOLEAN]
      BY DEF FlowInv, TypeOK
    <2>2. CASE CutoverDeny
      <3>1. connection.generation \in Nat /\ connection.generation < MaxGeneration
        BY <2>1, <2>2 DEF CutoverDeny, Generations
      <3>2. connection.generation + 1 \in Generations
        BY <3>1, BoundsAssumption DEF Generations
      <3> QED
        BY <2>2, <3>2 DEF CutoverDeny
    <2>3. CASE CutoverActivate
      BY <2>1, <2>3 DEF CutoverActivate
    <2> QED
      BY <2>2, <2>3
  <1>4. rows' \in [Subjects -> AuthorizationRows \cup {None}]
    <2>1. CASE CutoverDeny
      <3>1. rows \in [Subjects -> AuthorizationRows \cup {None}]
        BY DEF FlowInv, TypeOK
      <3>2. \A s \in Subjects :
                rows[s] # None => Disconnected(rows[s]) \in AuthorizationRows
        BY <3>1, DisconnectedRow
      <3> QED
        BY <2>1, <3>2 DEF CutoverDeny
    <2>2. CASE ~ CutoverDeny
      BY <2>2 DEF CutoverActivate, FlowInv, TypeOK
    <2> QED
      BY <2>1, <2>2
  <1>5. /\ asking' \subseteq Subjects \X Flows
        /\ evidence' \in [Subjects -> Flows \cup {None}]
    BY WithheldTyped DEF CutoverDeny, CutoverActivate, FlowInv, TypeOK
  <1> QED
    BY <1>1, <1>2, <1>3, <1>4, <1>5, RequestOnly DEF FlowInv, TypeOK, TablesTyped, google

\* What a step of a visibility run leaves alone and what it writes.
VisibilityStep(s) ==
    \/ AskVisibility(s) \/ Withhold(s)
    \/ \E f \in Flows : RecordEvidence(s, f) \/ RunEnds(s, f)

LEMMA VisibilitySteps ==
  ASSUME FlowInv, NEW s \in Subjects, VisibilityStep(s)
  PROVE  FlowInv'
  <1>1. UNCHANGED <<google, flows, sessions, users, connection, rows, requests>>
    BY DEF VisibilityStep, AskVisibility, Withhold, RecordEvidence, RunEnds, VisibilityUnchanged
  <1>2. RequestsKnow'
    BY <1>1, SameGrows, RequestsStay DEF FlowInv, google
  <1>3. asking' \subseteq Subjects \X Flows /\ evidence' \in [Subjects -> Flows \cup {None}]
    <2>1. CASE AskVisibility(s)
      <3>1. rows[s].authorization \in Flows
        BY <2>1 DEF AskVisibility, Ready, FlowInv, TypeOK, AuthorizationRows
      <3> QED
        BY <2>1, <3>1, WithheldTyped DEF AskVisibility, FlowInv, TypeOK
    <2>2. CASE Withhold(s)
      BY <2>2, WithheldTyped DEF Withhold, FlowInv, TypeOK
    <2>3. ASSUME NEW f \in Flows, RecordEvidence(s, f) \/ RunEnds(s, f)
          PROVE  asking' \subseteq Subjects \X Flows /\ evidence' \in [Subjects -> Flows \cup {None}]
      BY <2>3 DEF RecordEvidence, RunEnds, FlowInv, TypeOK
    <2> QED
      BY <2>1, <2>2, <2>3 DEF VisibilityStep
  <1> QED
    BY <1>1, <1>2, <1>3, RequestOnly DEF FlowInv, TypeOK, TablesTyped, google

LEMMA FlowInductive == FlowInv /\ [Next]_vars => FlowInv'
  <1> SUFFICES ASSUME FlowInv, [Next]_vars PROVE FlowInv'
    OBVIOUS
  <1>1. ASSUME NEW b \in Browsers, NEW f \in LoginFlows, BeginSessionAuthorization(b, f)
        PROVE  FlowInv'
    BY <1>1, BeginSteps DEF Flows
  <1>2. ASSUME NEW b \in Browsers, NEW f \in DriveFlows, BeginAuthorization(b, f)
        PROVE  FlowInv'
    BY <1>2, BeginSteps DEF Flows
  <1>3. ASSUME NEW q \in Requests, Callback(q)
        PROVE  FlowInv'
    BY <1>3, ConsumeSteps, ExchangeStep, AnswerSteps, CheckStep, LoginStep, ConnectStep, CloseStep
       DEF Callback
  <1>4. CASE UNCHANGED vars
    BY <1>4, SameGrows, RequestsStay, RequestOnly
       DEF vars, FlowInv, TypeOK, TablesTyped
  <1> QED
    BY <1>1, <1>2, <1>3, <1>4, GoogleSteps, OpenStep, EndSteps, DisconnectStep, TableSteps,
       VisibilitySteps DEF Next, VisibilityStep

-----------------------------------------------------------------------------
(* Types, logins and stored flows                                          *)

LEMMA FlowAlways == Spec => []FlowInv
  BY InitFlow, FlowInductive, PTL DEF Spec

\* Every step of every flow, callback, disconnect and cutover keeps the types.
THEOREM TypeCorrect == Spec => []TypeOK
  <1>1. FlowInv => TypeOK
    BY DEF FlowInv
  <1> QED
    BY <1>1, FlowAlways, PTL

\* Whatever callbacks are opened, twice, late or in other browsers, a browser
\* is logged in only as an account that consented to a login begun in it.
THEOREM SessionProved == Spec => []SessionIsProved
  <1>1. FlowInv => SessionIsProved
    BY DEF FlowInv, SessionsHeld, Held, SessionIsProved
  <1> QED
    BY <1>1, FlowAlways, PTL

\* No login and no late save of a session leaves a user with a Drive flow that
\* a user of another address began.
THEOREM OwnFlow == Spec => []StoredFlowIsOwn
  <1>1. FlowInv => StoredFlowIsOwn
    BY DEF FlowInv, SessionsHeld, Held, StoredFlowIsOwn
  <1> QED
    BY <1>1, FlowAlways, PTL

-----------------------------------------------------------------------------
(* Refresh tokens: exchanged codes, in at most one place                   *)

Spent == issued \ codes

\* A request that exchanged a code has its token, one that disconnects has
\* the tokens it will revoke, a row has the token in its credential.
Fresh(q) == IF At(q, "verified") THEN {Token(q)} ELSE {}
Pending(q) == IF At(q, "revoking") THEN requests[q].credentials ELSE {}
RowTokens(s) == IF rows[s] = None THEN {} ELSE {rows[s].credential} \ {None}

TokensApart ==
    /\ revoked \subseteq Spent
    /\ \A q \in Requests :
           /\ Fresh(q) \cup Pending(q) \subseteq Spent
           /\ Fresh(q) \cap revoked = {}
           /\ \A p \in Requests :
                  /\ Fresh(q) \cap Pending(p) = {}
                  /\ p # q => Fresh(q) \cap Fresh(p) = {}
    /\ \A s \in Subjects :
           /\ RowTokens(s) \subseteq Spent \cap (Flows \X {s})
           /\ RowTokens(s) \cap revoked = {}
           /\ \A q \in Requests : RowTokens(s) \cap (Fresh(q) \cup Pending(q)) = {}

LEMMA TokensShrink ==
  ASSUME TokensApart, Spent \subseteq Spent', revoked' = revoked,
         \A q \in Requests : Fresh(q)' \subseteq Fresh(q) /\ Pending(q)' \subseteq Pending(q),
         \A s \in Subjects : RowTokens(s)' \subseteq RowTokens(s)
  PROVE  TokensApart'
  <1> HIDE DEF Spent, Fresh, Pending, RowTokens
  <1>1. revoked' \subseteq Spent'
    BY DEF TokensApart
  <1>2. ASSUME NEW q \in Requests
        PROVE  /\ Fresh(q)' \cup Pending(q)' \subseteq Spent'
               /\ Fresh(q)' \cap revoked' = {}
               /\ \A p \in Requests :
                      /\ Fresh(q)' \cap Pending(p)' = {}
                      /\ p # q => Fresh(q)' \cap Fresh(p)' = {}
    BY DEF TokensApart
  <1>3. ASSUME NEW s \in Subjects
        PROVE  /\ RowTokens(s)' \subseteq Spent' \cap (Flows \X {s})
               /\ RowTokens(s)' \cap revoked' = {}
               /\ \A q \in Requests : RowTokens(s)' \cap (Fresh(q)' \cup Pending(q)') = {}
    BY DEF TokensApart
  <1> QED
    BY <1>1, <1>2, <1>3 DEF TokensApart

\* A request starts, ends or goes on, but neither exchanges nor starts revoking.
GoesOn(q) ==
    \E r : /\ requests' = [requests EXCEPT ![q] = r]
           /\ r # None => r.step \notin {"verified", "revoking"}

LEMMA RequestTokens ==
  ASSUME FlowInv, NEW q \in Requests, GoesOn(q)
  PROVE  \A p \in Requests : Fresh(p)' \subseteq Fresh(p) /\ Pending(p)' \subseteq Pending(p)
  <1> SUFFICES ASSUME NEW p \in Requests
               PROVE  Fresh(p)' \subseteq Fresh(p) /\ Pending(p)' \subseteq Pending(p)
    OBVIOUS
  <1>1. PICK r : /\ requests' = [requests EXCEPT ![q] = r]
                 /\ r # None => r.step \notin {"verified", "revoking"}
    BY DEF GoesOn
  <1>2. requests'[p] = IF p = q THEN r ELSE requests[p]
    BY <1>1 DEF FlowInv, TypeOK
  <1> QED
    BY <1>1, <1>2 DEF Fresh, Pending, At, Token, FlowOf

LEMMA ShrinkSteps ==
  ASSUME FlowInv, TokensApart,
         \/ \E b \in Browsers, f \in LoginFlows : BeginSessionAuthorization(b, f)
         \/ \E b \in Browsers, f \in DriveFlows : BeginAuthorization(b, f)
         \/ \E f \in Flows, s \in Subjects : Consent(f, s)
         \/ \E s \in Subjects, e \in Emails \cup {None} : MoveAddress(s, e)
         \/ CutoverDeny \/ CutoverActivate
         \/ \E s \in Subjects : VisibilityStep(s)
         \/ UNCHANGED vars
  PROVE  TokensApart'
  <1> USE DEF BeginSessionAuthorization, BeginAuthorization, Begin, Consent, MoveAddress,
              CutoverDeny, CutoverActivate, VisibilityStep, AskVisibility, Withhold,
              RecordEvidence, RunEnds, VisibilityUnchanged, vars
  <1>1. requests' = requests /\ revoked' = revoked /\ Spent \subseteq Spent'
    BY DEF Spent, google, tables
  <1>2. \A p \in Requests : Fresh(p)' \subseteq Fresh(p) /\ Pending(p)' \subseteq Pending(p)
    BY <1>1 DEF Fresh, Pending, At, Token, FlowOf
  <1>3. ASSUME NEW s \in Subjects PROVE RowTokens(s)' \subseteq RowTokens(s)
    <2>1. CASE CutoverDeny
      <3>1. rows'[s] = IF rows[s] = None THEN None ELSE Disconnected(rows[s])
        BY <2>1
      <3>2. rows[s] # None => Disconnected(rows[s]).credential = None
        BY DisconnectedRow DEF FlowInv, TypeOK
      <3> QED
        BY <3>1, <3>2 DEF RowTokens
    <2>2. CASE rows' = rows
      BY <2>2 DEF RowTokens
    <2> QED
      BY <2>1, <2>2 DEF tables
  <1> QED
    BY <1>1, <1>2, <1>3, TokensShrink

LEMMA CallbackTokens ==
  ASSUME FlowInv, TokensApart, NEW q \in Requests,
         \/ \E b \in Browsers, f \in Flows, s \in Subjects : OpenCallback(q, b, f, s)
         \/ AcceptState(q) \/ RefuseState(q) \/ ExchangeFails(q)
         \/ CheckConflict(q) \/ RefuseConflict(q) \/ SessionUser(q) \/ RefuseUser(q)
         \/ RefuseConnect(q) \/ Close(q) \/ Abandon(q)
  PROVE  TokensApart'
  <1> USE DEF OpenCallback, AcceptState, RefuseState, ConsumeState, ExchangeFails,
              CheckConflict, RefuseConflict, SessionUser, RefuseUser, RefuseConnect, Close,
              Abandon
  <1>1. revoked' = revoked /\ Spent \subseteq Spent' /\ rows' = rows
    BY DEF Spent, google, tables
  <1>2. \A s \in Subjects : RowTokens(s)' \subseteq RowTokens(s)
    BY <1>1 DEF RowTokens
  <1>3. requests \in [Requests -> RequestRecords \cup {None}]
    BY DEF FlowInv, TypeOK
  <1>4. GoesOn(q)
    <2>1. ASSUME NEW b \in Browsers, NEW f \in Flows, NEW s \in Subjects,
                 OpenCallback(q, b, f, s)
          PROVE  GoesOn(q)
      <3> USE DEF GoesOn
      <3> WITNESS [NewRequest("opened", b, sessions[b]) EXCEPT !.flow = f, !.subject = s]
      <3> QED
        BY <2>1 DEF NewRequest
    <2>2. ASSUME NEW x, Answer(q, x)
          PROVE  GoesOn(q)
      <3> USE DEF GoesOn
      <3> WITNESS NewRequest("closing", requests[q].browser, x)
      <3> QED
        BY <2>2 DEF Answer, NewRequest
    <2>3. CASE End(q)
      BY <2>3 DEF End, GoesOn
    <2>4. CASE AcceptState(q)
      <3>1. requests[q] \in RequestRecords
        BY <1>3, <2>4 DEF At
      <3> USE DEF GoesOn
      <3> WITNESS [requests[q] EXCEPT !.session = Popped(q), !.step = "accepted"]
      <3> QED
        BY <1>3, <2>4, <3>1 DEF RequestRecords
    <2>5. CASE CheckConflict(q)
      <3>1. requests[q] \in RequestRecords
        BY <1>3, <2>5 DEF At
      <3> USE DEF GoesOn
      <3> WITNESS [requests[q] EXCEPT !.step = "checked"]
      <3> QED
        BY <1>3, <2>5, <3>1 DEF RequestRecords, Goto
    <2> QED
      BY <2>1, <2>2, <2>3, <2>4, <2>5
  <1>5. \A p \in Requests : Fresh(p)' \subseteq Fresh(p) /\ Pending(p)' \subseteq Pending(p)
    BY <1>4, RequestTokens
  <1> QED
    BY <1>1, <1>2, <1>5, TokensShrink

\* The token of an exchange was in nobody's hands: its code was still good.
LEMMA ExchangeTokens ==
  ASSUME FlowInv, TokensApart, NEW q \in Requests, Exchange(q)
  PROVE  TokensApart'
  <1>1. /\ requests[q] \in RequestRecords /\ requests[q].step = "accepted"
        /\ Token(q) \in issued /\ Token(q) \in codes
    BY AtRequest DEF Exchange, Steps
  <1>2. /\ Token(q) \notin Spent
        /\ Spent' = Spent \cup {Token(q)}
        /\ revoked' = revoked
    BY <1>1 DEF Exchange, Spent
  <1>3. \A s \in Subjects : RowTokens(s)' = RowTokens(s)
    BY DEF RowTokens, Exchange, tables
  <1> DEFINE r == [requests[q] EXCEPT !.step = "verified",
                                      !.email = directory[requests[q].subject]]
  <1>4. /\ r.step = "verified" /\ r.flow = requests[q].flow
        /\ r.subject = requests[q].subject
        /\ requests' = [requests EXCEPT ![q] = r]
    BY <1>1 DEF RequestRecords, Exchange, FlowInv, TypeOK
  <1> HIDE DEF r
  <1>5. ASSUME NEW p \in Requests
        PROVE  /\ Fresh(p)' \subseteq IF p = q THEN {Token(q)} ELSE Fresh(p)
               /\ Pending(p)' \subseteq Pending(p)
    <2>1. requests'[p] = IF p = q THEN r ELSE requests[p]
      BY <1>4 DEF FlowInv, TypeOK
    <2> QED
      BY <1>1, <1>4, <2>1 DEF Fresh, Pending, At, Token, FlowOf
  <1> HIDE DEF Spent, Fresh, Pending, RowTokens
  <1> DEFINE t == Token(q)
  <1>6. \A p \in Requests : t \notin Fresh(p) /\ t \notin Pending(p)
    <2>1. \A p \in Requests : Fresh(p) \cup Pending(p) \subseteq Spent
      BY DEF TokensApart
    <2> QED
      BY <1>2, <2>1
  <1>7. t \notin revoked /\ \A s \in Subjects : t \notin RowTokens(s)
    BY <1>2 DEF TokensApart
  <1> HIDE DEF t
  <1>8. /\ Spent' = Spent \cup {t}
        /\ \A p \in Requests : Fresh(p)' \subseteq IF p = q THEN {t} ELSE Fresh(p)
        /\ \A p \in Requests : Pending(p)' \subseteq Pending(p)
    BY <1>2, <1>5 DEF t
  <1>9. ASSUME NEW o \in Requests
        PROVE  /\ Fresh(o)' \cup Pending(o)' \subseteq Spent'
               /\ Fresh(o)' \cap revoked' = {}
               /\ \A p \in Requests :
                      /\ Fresh(o)' \cap Pending(p)' = {}
                      /\ p # o => Fresh(o)' \cap Fresh(p)' = {}
    BY <1>2, <1>6, <1>7, <1>8 DEF TokensApart
  <1>10. ASSUME NEW s \in Subjects
         PROVE  /\ RowTokens(s)' \subseteq Spent' \cap (Flows \X {s})
                /\ RowTokens(s)' \cap revoked' = {}
                /\ \A o \in Requests : RowTokens(s)' \cap (Fresh(o)' \cup Pending(o)') = {}
    <2>1. /\ RowTokens(s)' = RowTokens(s)
          /\ RowTokens(s) \subseteq Spent \cap (Flows \X {s})
          /\ RowTokens(s) \cap revoked = {}
      BY <1>3 DEF TokensApart
    <2>2. ASSUME NEW o \in Requests
          PROVE  RowTokens(s) \cap (Fresh(o)' \cup Pending(o)') = {}
      <3>1. RowTokens(s) \cap (Fresh(o) \cup Pending(o)) = {} /\ t \notin RowTokens(s)
        BY <1>7 DEF TokensApart
      <3> QED
        BY <1>8, <3>1
    <2> QED
      BY <1>2, <1>8, <2>1, <2>2
  <1>11. revoked' \subseteq Spent'
    BY <1>2 DEF TokensApart
  <1> QED
    BY <1>9, <1>10, <1>11 DEF TokensApart

\* The token goes from the request to the row of its account, and the old one
\* of the row is forgotten.
LEMMA ConnectTokens ==
  ASSUME FlowInv, TokensApart, NEW q \in Requests, NEW refreshed \in BOOLEAN,
         Connect(q, refreshed)
  PROVE  TokensApart'
  <1>0. PICK subject \in Subjects : subject = requests[q].subject
    BY AtRequest DEF Connect, Steps
  <1>1. At(q, "verified") /\ Fresh(q) = {Token(q)} /\ Token(q) = <<FlowOf(q), subject>>
    BY <1>0 DEF Connect, Fresh, Token
  <1>2. /\ subject \in Subjects /\ FlowOf(q) \in Flows
        /\ rows'[subject].credential =
               IF refreshed THEN Token(q) ELSE rows[subject].credential
        /\ ~refreshed => rows[subject] # None /\ rows[subject].credential # None
    <2>1. /\ subject \in Subjects /\ FlowOf(q) \in Flows
          /\ rows'[subject] = Connected(q, refreshed)
      BY <1>0, <1>1, ConnectRows, AtRequest DEF Steps
    <2> QED
      BY <1>0, <2>1 DEF Connected, Connect, CredentialAvailable
  <1>3. RowTokens(subject)' \subseteq RowTokens(subject) \cup Fresh(q)
    BY <1>1, <1>2 DEF RowTokens
  <1>4. ASSUME NEW s \in Subjects, s # subject
        PROVE  RowTokens(s)' \subseteq RowTokens(s)
    <2>1. rows'[s] = rows[s] \/ (rows[s] \in AuthorizationRows /\ rows'[s] = Disconnected(rows[s]))
      BY <1>0, <1>4, ConnectRows
    <2> QED
      BY <2>1, DisconnectedRow DEF RowTokens
  <1>5. /\ requests' = [requests EXCEPT ![q] =
               NewRequest("closing", requests[q].browser, requests[q].session)]
        /\ revoked' = revoked /\ Spent' = Spent
    BY DEF Connect, Answer, google, Spent
  <1>6. Fresh(q)' = {}
    <2>1. requests'[q] = NewRequest("closing", requests[q].browser, requests[q].session)
      BY <1>5 DEF FlowInv, TypeOK
    <2> QED
      BY <2>1 DEF Fresh, At, NewRequest
  <1>7. \A p \in Requests : Fresh(p)' \subseteq Fresh(p) /\ Pending(p)' \subseteq Pending(p)
    <2>1. NewRequest("closing", requests[q].browser, requests[q].session).step = "closing"
      BY DEF NewRequest
    <2>2. GoesOn(q)
      BY <1>5, <2>1 DEF GoesOn
    <2> QED
      BY <2>2, RequestTokens
  <1> HIDE DEF Spent, Fresh, Pending, RowTokens
  <1>8. Fresh(q) \subseteq Spent \cap (Flows \X {subject})
    BY <1>1, <1>2 DEF TokensApart
  <1>9. ASSUME NEW o \in Requests
        PROVE  /\ Fresh(o)' \cup Pending(o)' \subseteq Spent'
               /\ Fresh(o)' \cap revoked' = {}
               /\ \A p \in Requests :
                      /\ Fresh(o)' \cap Pending(p)' = {}
                      /\ p # o => Fresh(o)' \cap Fresh(p)' = {}
    BY <1>5, <1>7 DEF TokensApart
  <1>10. ASSUME NEW s \in Subjects, s # subject
         PROVE  /\ RowTokens(s)' \subseteq Spent' \cap (Flows \X {s})
                /\ RowTokens(s)' \cap revoked' = {}
                /\ \A o \in Requests : RowTokens(s)' \cap (Fresh(o)' \cup Pending(o)') = {}
    BY <1>4, <1>5, <1>7, <1>10 DEF TokensApart
  <1>11. /\ RowTokens(subject)' \subseteq Spent' \cap (Flows \X {subject})
         /\ RowTokens(subject)' \cap revoked' = {}
    BY <1>2, <1>3, <1>5, <1>8 DEF TokensApart
  <1>12. ASSUME NEW o \in Requests
         PROVE  RowTokens(subject)' \cap (Fresh(o)' \cup Pending(o)') = {}
    <2>1. RowTokens(subject) \cap (Fresh(o) \cup Pending(o)) = {}
      BY <1>2 DEF TokensApart
    <2>2. Fresh(q) \cap Pending(o) = {} /\ (o # q => Fresh(q) \cap Fresh(o) = {})
      BY DEF TokensApart
    <2> QED
      BY <1>3, <1>6, <1>7, <2>1, <2>2
  <1>13. revoked' \subseteq Spent'
    BY <1>5 DEF TokensApart
  <1> QED
    BY <1>9, <1>10, <1>11, <1>12, <1>13 DEF TokensApart

\* The tokens go from the rows to the request that will revoke them.
LEMMA DisconnectTokens ==
  ASSUME FlowInv, TokensApart, NEW q \in Requests, NEW b \in Browsers, Disconnect(q, b)
  PROVE  TokensApart'
  <1>0. PICK mine : mine = OfEmail(users[sessions[b].user])
    OBVIOUS
  <1>1. mine \subseteq Subjects /\ \A s \in mine : rows[s] # None
    BY <1>0 DEF OfEmail
  <1> DEFINE tokens == {rows[s].credential : s \in mine} \ {None}
             r == [NewRequest("revoking", b, Anonymous) EXCEPT !.credentials = tokens]
  <1>2. /\ requests[q] = None
        /\ requests' = [requests EXCEPT ![q] = r]
        /\ revoked' = revoked /\ Spent' = Spent
        /\ rows' = [s \in Subjects |-> IF s \in mine THEN Disconnected(rows[s]) ELSE rows[s]]
    BY <1>0 DEF Disconnect, google, Spent
  <1>3. r.step = "revoking" /\ r.credentials = tokens
    BY DEF NewRequest
  <1>4. tokens = UNION {RowTokens(s) : s \in mine}
    BY <1>1 DEF RowTokens
  <1>5. PICK ts : ts = tokens
    OBVIOUS
  <1> HIDE DEF r, tokens
  <1>6. ASSUME NEW p \in Requests
        PROVE  /\ Fresh(p)' \subseteq Fresh(p)
               /\ Pending(p)' \subseteq IF p = q THEN ts ELSE Pending(p)
    <2>1. requests'[p] = IF p = q THEN r ELSE requests[p]
      BY <1>2 DEF FlowInv, TypeOK
    <2> QED
      BY <1>2, <1>3, <1>5, <2>1 DEF Fresh, Pending, At, Token, FlowOf
  <1>7. ASSUME NEW s \in Subjects
        PROVE  RowTokens(s)' \subseteq IF s \in mine THEN {} ELSE RowTokens(s)
    <2>1. rows[s] # None => Disconnected(rows[s]).credential = None
      BY DisconnectedRow DEF FlowInv, TypeOK
    <2> QED
      BY <1>1, <1>2, <2>1 DEF RowTokens
  <1>8. \A s, t \in Subjects : s # t => RowTokens(s) \cap RowTokens(t) = {}
    <2>1. \A s \in Subjects : RowTokens(s) \subseteq Flows \X {s}
      BY DEF TokensApart
    <2> QED
      BY <2>1
  <1> HIDE DEF Spent, Fresh, Pending, RowTokens
  <1>9. /\ ts \subseteq Spent /\ ts \cap revoked = {}
        /\ \A p \in Requests : Fresh(p) \cap ts = {}
        /\ \A s \in Subjects : s \notin mine => RowTokens(s) \cap ts = {}
    BY <1>1, <1>4, <1>5, <1>8 DEF TokensApart
  <1>10. ASSUME NEW o \in Requests
         PROVE  /\ Fresh(o)' \cup Pending(o)' \subseteq Spent'
                /\ Fresh(o)' \cap revoked' = {}
                /\ \A p \in Requests :
                       /\ Fresh(o)' \cap Pending(p)' = {}
                       /\ p # o => Fresh(o)' \cap Fresh(p)' = {}
    BY <1>2, <1>6, <1>9 DEF TokensApart
  <1>11. ASSUME NEW s \in Subjects
         PROVE  /\ RowTokens(s)' \subseteq Spent' \cap (Flows \X {s})
                /\ RowTokens(s)' \cap revoked' = {}
                /\ \A o \in Requests : RowTokens(s)' \cap (Fresh(o)' \cup Pending(o)') = {}
    BY <1>2, <1>6, <1>7, <1>9 DEF TokensApart
  <1>12. revoked' \subseteq Spent'
    BY <1>2 DEF TokensApart
  <1> QED
    BY <1>10, <1>11, <1>12 DEF TokensApart

LEMMA RevokeTokens ==
  ASSUME FlowInv, TokensApart, NEW q \in Requests, RevokeCredentials(q)
  PROVE  TokensApart'
  <1>1. revoked' = revoked \cup Pending(q) /\ Spent' = Spent /\ rows' = rows
    BY DEF RevokeCredentials, Pending, Spent, tables
  <1>2. \A p \in Requests : Fresh(p)' \subseteq Fresh(p) /\ Pending(p)' \subseteq Pending(p)
    BY RequestTokens DEF RevokeCredentials, End, GoesOn
  <1>3. \A s \in Subjects : RowTokens(s)' = RowTokens(s)
    BY <1>1 DEF RowTokens
  <1> HIDE DEF Spent, Fresh, Pending, RowTokens
  <1>4. /\ Pending(q) \subseteq Spent
        /\ \A p \in Requests : Fresh(p) \cap Pending(q) = {}
        /\ \A s \in Subjects : RowTokens(s) \cap Pending(q) = {}
    BY DEF TokensApart
  <1>5. ASSUME NEW o \in Requests
        PROVE  /\ Fresh(o)' \cup Pending(o)' \subseteq Spent'
               /\ Fresh(o)' \cap revoked' = {}
               /\ \A p \in Requests :
                      /\ Fresh(o)' \cap Pending(p)' = {}
                      /\ p # o => Fresh(o)' \cap Fresh(p)' = {}
    BY <1>1, <1>2, <1>4 DEF TokensApart
  <1>6. ASSUME NEW s \in Subjects
        PROVE  /\ RowTokens(s)' \subseteq Spent' \cap (Flows \X {s})
               /\ RowTokens(s)' \cap revoked' = {}
               /\ \A o \in Requests : RowTokens(s)' \cap (Fresh(o)' \cup Pending(o)') = {}
    BY <1>1, <1>2, <1>3, <1>4 DEF TokensApart
  <1>7. revoked' \subseteq Spent'
    BY <1>1, <1>4 DEF TokensApart
  <1> QED
    BY <1>5, <1>6, <1>7 DEF TokensApart

LEMMA TokensInductive == FlowInv /\ TokensApart /\ [Next]_vars => TokensApart'
  <1> SUFFICES ASSUME FlowInv, TokensApart, [Next]_vars PROVE TokensApart'
    OBVIOUS
  <1>1. ASSUME NEW q \in Requests, Callback(q) \/ RevokeCredentials(q) \/ Abandon(q)
        PROVE  TokensApart'
    BY <1>1, CallbackTokens, ExchangeTokens, ConnectTokens, RevokeTokens DEF Callback
  <1>2. ASSUME NEW q \in Requests, NEW b \in Browsers, NEW f \in Flows, NEW s \in Subjects,
               OpenCallback(q, b, f, s)
        PROVE  TokensApart'
    BY <1>2, CallbackTokens
  <1> QED
    BY <1>1, <1>2, DisconnectTokens, ShrinkSteps DEF Next, VisibilityStep

LEMMA InitTokens == Init => TokensApart
  BY DEF Init, TokensApart, Spent, Fresh, Pending, RowTokens, At

LEMMA TokensAlways == Spec => []TokensApart
  BY FlowAlways, InitTokens, TokensInductive, PTL DEF Spec

\* The tokens that a disconnect still has to revoke, or has revoked, are in no
\* row, however often the user connects again before the revocation.
THEOREM RevokedNotHeld == Spec => []RevokedIsNotHeld
  <1>1. TokensApart => RevokedIsNotHeld
    BY DEF TokensApart, RevokedIsNotHeld, RowTokens, Pending
  <1> QED
    BY <1>1, TokensAlways, PTL

-----------------------------------------------------------------------------
(* Active rows                                                             *)

ConsentStands(s) ==
    LET f == rows[s].authorization
    IN  /\ f # None
        /\ <<f, s>> \in issued
        /\ f \in DriveFlows
        /\ flows[f].email = rows[s].email
        /\ flows[f].generation = connection.generation
        /\ rows[s].generation = connection.generation

EvidenceStands(s) ==
    evidence[s] # None =>
        IsActive(s) /\ rows[s].authorization = evidence[s] /\ connection.serves

CredentialStands(s) == ~IsActive(s) /\ rows[s] # None => rows[s].credential = None

RowsStand ==
    /\ \A s \in Subjects :
           (IsActive(s) => ConsentStands(s)) /\ EvidenceStands(s) /\ CredentialStands(s)
    /\ OneActivePerEmail

LEMMA AlwaysGrows == FlowInv /\ [Next]_vars => Growth
  <1> SUFFICES ASSUME FlowInv, [Next]_vars PROVE Growth
    OBVIOUS
  <1>1. ASSUME NEW b \in Browsers, NEW f \in Flows, NEW e, NEW g, Begin(b, f, e, g),
               UNCHANGED <<issued, users>>
        PROVE  Growth
    BY <1>1 DEF Begin, Growth, Grows, FlowInv, TypeOK
  <1>2. ASSUME NEW q \in Requests, SessionUser(q)
        PROVE  Growth
    <2>1. \A s \in Subjects : users[s] # None => users'[s] = users[s]
      BY <1>2 DEF SessionUser, FlowInv, TypeOK
    <2> QED
      BY <1>2, <2>1 DEF SessionUser, Growth, Grows, google
  <1>3. ASSUME NEW f \in Flows, NEW s \in Subjects, Consent(f, s)
        PROVE  Growth
    BY <1>3 DEF Consent, Growth, Grows
  <1>4. ASSUME NEW b \in Browsers, NEW f \in LoginFlows, BeginSessionAuthorization(b, f)
        PROVE  Growth
    BY <1>1, <1>4 DEF BeginSessionAuthorization, Flows, google
  <1>5. ASSUME NEW b \in Browsers, NEW f \in DriveFlows, BeginAuthorization(b, f)
        PROVE  Growth
    BY <1>1, <1>5 DEF BeginAuthorization, Flows, google
  <1>6. ASSUME NEW q \in Requests, Callback(q) \/ RevokeCredentials(q) \/ Abandon(q)
        PROVE  Growth
    BY <1>2, <1>6, SameGrows
       DEF Callback, AcceptState, RefuseState, ConsumeState, Exchange, ExchangeFails,
           CheckConflict, RefuseConflict, RefuseUser, Connect, RefuseConnect, Close,
           RevokeCredentials, Abandon, google
  <1>7. CASE UNCHANGED <<issued, flows, users>>
    BY <1>7, SameGrows
  <1> QED
    BY <1>3, <1>4, <1>5, <1>6, <1>7
       DEF Next, MoveAddress, OpenCallback, Disconnect, CutoverDeny, CutoverActivate,
           AskVisibility, Withhold, RecordEvidence, RunEnds, VisibilityUnchanged, vars, google

\* What an active row stands on stays.
LEMMA ConsentStays ==
  ASSUME FlowInv, Growth, NEW s \in Subjects, ConsentStands(s), rows'[s] = rows[s],
         connection'.generation = connection.generation
  PROVE  ConsentStands(s)'
  <1> DEFINE f == rows[s].authorization
  <1>1. f \in Flows /\ <<f, s>> \in issued
    BY DEF ConsentStands, Flows
  <1>2. flows[f].browser # None
    BY <1>1 DEF FlowInv, IssuedBegun
  <1>3. flows'[f] = flows[f] /\ <<f, s>> \in issued'
    BY <1>1, <1>2 DEF Growth, Grows
  <1> QED
    BY <1>3 DEF ConsentStands

\* Rows stay or are disconnected, and lose their evidence with that; evidence
\* is gained only for what the row has.
LEMMA RowsShrink ==
  ASSUME FlowInv, Growth, RowsStand,
         connection'.generation = connection.generation,
         connection.serves => connection'.serves,
         \A s \in Subjects :
             \/ /\ rows'[s] = rows[s]
                /\ \/ evidence'[s] \in {None, evidence[s]}
                   \/ /\ IsActive(s) /\ connection.serves
                      /\ evidence'[s] = rows[s].authorization
             \/ /\ rows[s] # None /\ rows'[s] = Disconnected(rows[s])
                /\ evidence'[s] = None
  PROVE  RowsStand'
  <1>1. ASSUME NEW s \in Subjects
        PROVE  /\ IsActive(s)' => IsActive(s) /\ rows'[s] = rows[s]
               /\ EvidenceStands(s)' /\ CredentialStands(s)'
    <2>1. CASE /\ rows'[s] = rows[s]
               /\ \/ evidence'[s] \in {None, evidence[s]}
                  \/ IsActive(s) /\ connection.serves /\ evidence'[s] = rows[s].authorization
      BY <2>1 DEF IsActive, RowsStand, EvidenceStands, CredentialStands
    <2>2. CASE /\ rows[s] # None /\ rows'[s] = Disconnected(rows[s])
               /\ evidence'[s] = None
      <3>1. rows[s] \in AuthorizationRows
        BY <2>2 DEF FlowInv, TypeOK
      <3> QED
        BY <2>2, <3>1, DisconnectedRow DEF IsActive, EvidenceStands, CredentialStands
    <2> QED
      BY <2>1, <2>2
  <1>2. \A s \in Subjects : IsActive(s)' => ConsentStands(s)'
    BY <1>1, ConsentStays DEF RowsStand
  <1>3. OneActivePerEmail'
    BY <1>1 DEF RowsStand, OneActivePerEmail
  <1> QED
    BY <1>1, <1>2, <1>3 DEF RowsStand

LEMMA ConnectStands ==
  ASSUME FlowInv, Growth, RowsStand, NEW q \in Requests, NEW refreshed \in BOOLEAN,
         Connect(q, refreshed)
  PROVE  RowsStand'
  <1>0. PICK subject \in Subjects : subject = requests[q].subject
    BY AtRequest DEF Connect, Steps
  <1>a. PICK e : e = flows[FlowOf(q)].email
    OBVIOUS
  <1>1. subject = requests[q].subject /\ e = flows[FlowOf(q)].email
    BY <1>0, <1>a
  <1>2. PICK conflicting : conflicting = OfEmail(e) \ {subject}
    OBVIOUS
  <1>3. /\ Token(q) = <<FlowOf(q), subject>> /\ Token(q) \in issued
        /\ FlowOf(q) \in DriveFlows
        /\ connection' = connection /\ issued' = issued /\ flows' = flows
        /\ flows[FlowOf(q)].generation = connection.generation
        /\ WithholdAll(conflicting \cup {subject})
    BY <1>1, <1>2, ConnectRows DEF Connect, ConnectionUnchanged, Token, google
  <1>4. /\ rows'[subject].email = e /\ rows'[subject].active
        /\ rows'[subject].authorization = FlowOf(q)
        /\ rows'[subject].generation = connection.generation
    <2>1. rows'[subject] = Connected(q, refreshed)
      BY <1>1, ConnectRows
    <2> QED
      BY <1>1, <2>1 DEF Connected
  <1>5. PICK f : f = FlowOf(q)
    OBVIOUS
  <1>6. ConsentStands(subject)'
    <2>1. f # None
      BY <1>3, <1>5, NoneAssumption DEF Flows
    <2> QED
      BY <1>1, <1>3, <1>4, <1>5, <2>1 DEF ConsentStands
  <1>7. ASSUME NEW s \in conflicting
        PROVE  ~IsActive(s)' /\ rows'[s].credential = None /\ s \in Subjects
    BY <1>1, <1>2, ConnectRows, DisconnectedRow DEF IsActive, OfEmail
  <1>8. ASSUME NEW s \in Subjects \ (conflicting \cup {subject})
        PROVE  rows'[s] = rows[s] /\ (rows[s] # None => rows[s].email # e)
    BY <1>1, <1>2, ConnectRows
  <1>9. ASSUME NEW s \in Subjects, IsActive(s)'
        PROVE  ConsentStands(s)'
    <2>1. CASE s = subject
      BY <1>6, <2>1
    <2>2. CASE s # subject
      <3>1. rows'[s] = rows[s] /\ IsActive(s)
        BY <1>7, <1>8, <1>9, <2>2 DEF IsActive
      <3> QED
        BY <1>3, <3>1, ConsentStays DEF RowsStand
    <2> QED
      BY <2>1, <2>2
  <1>10. OneActivePerEmail'
    <2>1. \A s \in Subjects : IsActive(s)' /\ s # subject =>
              IsActive(s) /\ rows'[s] = rows[s] /\ rows'[s].email # e
      BY <1>7, <1>8 DEF IsActive
    <2> QED
      BY <1>4, <2>1 DEF OneActivePerEmail, RowsStand
  <1>11. ASSUME NEW s \in Subjects
         PROVE  EvidenceStands(s)' /\ CredentialStands(s)'
    <2>1. CASE s = subject
      BY <1>3, <1>4, <2>1 DEF IsActive, WithholdAll, EvidenceStands, CredentialStands
    <2>2. CASE s \in conflicting
      BY <1>3, <1>7, <2>2 DEF WithholdAll, EvidenceStands, CredentialStands
    <2>3. CASE s \notin conflicting \cup {subject}
      BY <1>3, <1>8, <2>3
         DEF IsActive, WithholdAll, RowsStand, EvidenceStands, CredentialStands
    <2> QED
      BY <2>1, <2>2, <2>3
  <1> QED
    BY <1>9, <1>10, <1>11 DEF RowsStand

LEMMA CutoverStands ==
  ASSUME FlowInv, CutoverDeny
  PROVE  RowsStand'
  <1>1. ASSUME NEW s \in Subjects
        PROVE  ~IsActive(s)' /\ (rows'[s] # None => rows'[s].credential = None)
    <2>1. rows[s] # None => rows[s] \in AuthorizationRows
      BY DEF FlowInv, TypeOK
    <2> QED
      BY <2>1, DisconnectedRow DEF CutoverDeny, IsActive
  <1> QED
    BY <1>1 DEF RowsStand, OneActivePerEmail, EvidenceStands, CredentialStands, CutoverDeny,
                WithholdAll

LEMMA DisconnectStands ==
  ASSUME FlowInv, Growth, RowsStand, NEW q \in Requests, NEW b \in Browsers, Disconnect(q, b)
  PROVE  RowsStand'
  <1> DEFINE mine == OfEmail(users[sessions[b].user])
  <1>1. /\ rows' = [s \in Subjects |-> IF s \in mine THEN Disconnected(rows[s]) ELSE rows[s]]
        /\ WithholdAll(mine)
        /\ connection' = connection
        /\ \A s \in mine : rows[s] # None
    BY DEF Disconnect, OfEmail
  <1> HIDE DEF mine
  <1>2. ASSUME NEW s \in Subjects
        PROVE  \/ rows'[s] = rows[s] /\ evidence'[s] \in {None, evidence[s]}
               \/ /\ rows[s] # None /\ rows'[s] = Disconnected(rows[s])
                  /\ evidence'[s] = None
    BY <1>1 DEF WithholdAll
  <1> QED
    BY <1>1, <1>2, RowsShrink

LEMMA VisibilityStands ==
  ASSUME FlowInv, Growth, RowsStand, NEW s \in Subjects, VisibilityStep(s)
  PROVE  RowsStand'
  <1>1. evidence \in [Subjects -> Flows \cup {None}]
    BY DEF FlowInv, TypeOK
  <1>2. rows' = rows /\ connection' = connection
    BY DEF VisibilityStep, AskVisibility, Withhold, RecordEvidence, RunEnds, VisibilityUnchanged
  <1>3. CASE AskVisibility(s) \/ Withhold(s) \/ \E f \in Flows : RunEnds(s, f)
    <2>1. \A t \in Subjects : evidence'[t] \in {None, evidence[t]}
      BY <1>3 DEF AskVisibility, Withhold, RunEnds, WithholdAll
    <2> QED
      BY <1>2, <2>1, RowsShrink
  <1>4. ASSUME NEW f \in Flows, RecordEvidence(s, f)
        PROVE  RowsStand'
    <2>1. IsActive(s) /\ connection.serves /\ rows[s].authorization = f
      BY <1>4 DEF RecordEvidence, RunHolds, Ready, IsActive
    <2>2. \A t \in Subjects : evidence'[t] = IF t = s THEN f ELSE evidence[t]
      BY <1>1, <1>4 DEF RecordEvidence
    <2> QED
      BY <1>2, <2>1, <2>2, RowsShrink
  <1> QED
    BY <1>3, <1>4 DEF VisibilityStep

LEMMA RowsInductive == FlowInv /\ RowsStand /\ [Next]_vars => RowsStand'
  <1> SUFFICES ASSUME FlowInv, RowsStand, [Next]_vars PROVE RowsStand'
    OBVIOUS
  <1>1. Growth
    BY AlwaysGrows
  <1>2. ASSUME rows' = rows, evidence' = evidence,
               connection'.generation = connection.generation,
               connection.serves => connection'.serves
        PROVE  RowsStand'
    BY <1>1, <1>2, RowsShrink
  <1>3. CASE UNCHANGED tables
    BY <1>2, <1>3 DEF tables
  <1>4. CASE CutoverActivate
    <2>1. connection'.generation = connection.generation
      BY <1>4 DEF CutoverActivate, FlowInv, TypeOK
    <2> QED
      BY <1>2, <1>4, <2>1 DEF CutoverActivate
  <1>5. ASSUME NEW s \in Subjects, VisibilityStep(s)
        PROVE  RowsStand'
    BY <1>1, <1>5, VisibilityStands
  <1>6. ASSUME NEW q \in Requests, NEW refreshed \in BOOLEAN, Connect(q, refreshed)
        PROVE  RowsStand'
    BY <1>1, <1>6, ConnectStands
  <1>7. ASSUME NEW q \in Requests, Callback(q) \/ RevokeCredentials(q) \/ Abandon(q)
        PROVE  RowsStand'
    BY <1>3, <1>6, <1>7
       DEF Callback, AcceptState, RefuseState, ConsumeState, Exchange, ExchangeFails,
           CheckConflict, RefuseConflict, SessionUser, RefuseUser, RefuseConnect, Close,
           RevokeCredentials, Abandon, tables
  <1>8. ASSUME NEW q \in Requests, NEW b \in Browsers, Disconnect(q, b)
        PROVE  RowsStand'
    BY <1>1, <1>8, DisconnectStands
  <1>9. CASE \/ \E b \in Browsers, f \in LoginFlows : BeginSessionAuthorization(b, f)
             \/ \E b \in Browsers, f \in DriveFlows : BeginAuthorization(b, f)
             \/ \E f \in Flows, s \in Subjects : Consent(f, s)
             \/ \E s \in Subjects, e \in Emails \cup {None} : MoveAddress(s, e)
             \/ \E q \in Requests, b \in Browsers, f \in Flows, s \in Subjects :
                    OpenCallback(q, b, f, s)
             \/ UNCHANGED vars
    BY <1>3, <1>9
       DEF BeginSessionAuthorization, BeginAuthorization, Consent, MoveAddress, OpenCallback,
           vars, tables
  <1> QED
    BY <1>4, <1>5, <1>7, <1>8, <1>9, CutoverStands DEF Next, VisibilityStep

LEMMA InitRows == Init => RowsStand
  BY DEF Init, RowsStand, IsActive, OneActivePerEmail, EvidenceStands, CredentialStands

LEMMA RowsAlways == Spec => []RowsStand
  BY FlowAlways, InitRows, RowsInductive, PTL DEF Spec

\* However the callbacks of several accounts that had an address overlap, the
\* address has one active authorization.
THEOREM OneActive == Spec => []OneActivePerEmail
  <1>1. RowsStand => OneActivePerEmail
    BY DEF RowsStand
  <1> QED
    BY <1>1, RowsAlways, PTL

\* An active authorization rests on its own account's consent to a flow that
\* the address began in the present generation.
THEOREM Consented == Spec => []ActiveIsConsented
  <1>1. RowsStand => ActiveIsConsented
    BY DEF RowsStand, ConsentStands, ActiveIsConsented
  <1> QED
    BY <1>1, RowsAlways, PTL

\* Displaced, disconnected and cut-over rows keep no credential and no
\* evidence, and no late visibility run gives them any.
THEOREM InactiveNothing == Spec => []InactiveHoldsNothing
  <1>1. RowsStand => InactiveHoldsNothing
    BY DEF RowsStand, EvidenceStands, CredentialStands, InactiveHoldsNothing
  <1> QED
    BY <1>1, RowsAlways, PTL

\* Evidence belongs to the consent its account's row stands on now, and to the
\* only account of the address: whatever connects, cutovers and reactivations a
\* visibility run spans, its commit comes to nothing or is of the present.
THEOREM EvidencePresent == Spec => []EvidenceIsOfPresentConsent
  <1>1. ASSUME RowsStand, NEW s \in Subjects, evidence[s] # None
        PROVE  /\ rows[s] # None
               /\ rows[s].authorization = evidence[s]
               /\ flows[evidence[s]].email = rows[s].email
               /\ flows[evidence[s]].generation = connection.generation
               /\ connection.serves
               /\ \A t \in OfEmail(rows[s].email) \ {s} : evidence[t] = None
    <2>1. /\ IsActive(s) /\ rows[s].authorization = evidence[s] /\ connection.serves
          /\ ConsentStands(s)
      BY <1>1 DEF RowsStand, EvidenceStands
    <2>2. ASSUME NEW t \in OfEmail(rows[s].email) \ {s}
          PROVE  evidence[t] = None
      <3>1. t \in Subjects /\ rows[t].email = rows[s].email /\ t # s
        BY DEF OfEmail
      <3>2. ~IsActive(t)
        BY <1>1, <2>1, <3>1 DEF RowsStand, OneActivePerEmail
      <3> QED
        BY <1>1, <3>1, <3>2 DEF RowsStand, EvidenceStands
    <2> QED
      BY <2>1, <2>2 DEF IsActive, ConsentStands
  <1>2. RowsStand => EvidenceIsOfPresentConsent
    BY <1>1 DEF EvidenceIsOfPresentConsent
  <1> QED
    BY <1>2, RowsAlways, PTL

=============================================================================
