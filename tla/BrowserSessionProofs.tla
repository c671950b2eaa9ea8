------------------------ MODULE BrowserSessionProofs ------------------------
(***************************************************************************)
(* Proofs about BrowserSession for any number of users, shares, tokens,    *)
(* connections and requests: type correctness; a confirmed logout is       *)
(* final, whatever writes fail; a confirmed password reset, deletion or    *)
(* revocation is final as long as writes succeed.                          *)
(***************************************************************************)
EXTENDS BrowserSession, TLAPS

-----------------------------------------------------------------------------
(* Type correctness *)

\* A change of one record keeps the document one, and touches no connection.
LEMMA ChangeTypes ==
    ASSUME TypeOK,
           NEW q \in Request, NEW s \in Subject,
           NEW r \in Record \cup {None}, NEW lowest \in 0..MaxVersion + 1,
           Change(q, s, r, lowest),
           born' \in SUBSET Subject
    PROVE  TypeOK'
<1>1. mem' \in Document
  BY DEF TypeOK, Change, Document
<1>2. job' \in [Request -> [subject : Subject, floor : 0..MaxVersion + 1] \cup {None}]
  BY DEF TypeOK, Change
<1>3. unsaved' \in SUBSET Goroutine
  BY DEF TypeOK, Change, Goroutine
<1>4. changes' \in 0..MaxChanges
  BY LimitsAssumption DEF TypeOK, Change
<1> QED BY <1>1, <1>2, <1>3, <1>4 DEF TypeOK, Change, connVars

\* What a record becomes is a record.
LEMMA ChangedRecords ==
    ASSUME TypeOK, NEW s \in Subject, mem.rec[s] # None
    PROVE  /\ mem.rec[s] \in Record
           /\ \A rights \in Rights : [mem.rec[s] EXCEPT !.rights = rights] \in Record
           /\ mem.rec[s].ver < MaxVersion =>
                /\ [mem.rec[s] EXCEPT !.ver = @ + 1] \in Record
                /\ mem.rec[s].ver + 1 \in 0..MaxVersion + 1
<1>1. mem.rec[s] \in Record
  BY DEF TypeOK, Document
<1> QED BY <1>1, LimitsAssumption DEF Record

\* Dropping the shares that are over leaves a document.
LEMMA SweptType ==
    ASSUME TypeOK, NEW k
    PROVE  Swept(k) \in Document
<1>1. CASE k \in Share
  <2>1. [s \in Subject |-> IF s \in Share /\ Over(s) THEN None ELSE mem.rec[s]]
            \in [Subject -> Record \cup {None}]
    BY DEF TypeOK, Document
  <2> QED BY <1>1, <2>1 DEF Swept, TypeOK, Document
<1>2. CASE k \notin Share
  BY <1>2 DEF Swept, TypeOK
<1> QED BY <1>1, <1>2

LEMMA TypeInit == Init => TypeOK
<1> SUFFICES ASSUME Init PROVE TypeOK
  OBVIOUS
<1>1. mem \in Document
  BY DEF Init, Document
<1>2. 0 \in 0..MaxVersion + 1 /\ 0 \in 0..MaxChanges /\ 0 \in 0..MaxRestarts
  BY LimitsAssumption
<1> QED BY <1>1, <1>2 DEF Init, TypeOK

LEMMA TypeStep == TypeOK /\ [Next]_vars => TypeOK'
<1> SUFFICES ASSUME TypeOK, [Next]_vars PROVE TypeOK'
  OBVIOUS
<1>1. ASSUME NEW q \in Request, NEW s \in Subject, NEW rights \in Rights, Create(q, s, rights)
      PROVE  TypeOK'
  <2>1. [ver |-> 0, rights |-> rights] \in Record /\ 0 \in 0..MaxVersion + 1
    BY LimitsAssumption DEF Record
  <2>2. born' \in SUBSET Subject /\ Change(q, s, [ver |-> 0, rights |-> rights], 0)
    BY <1>1 DEF Create, TypeOK
  <2> QED BY <2>1, <2>2, ChangeTypes
<1>2. ASSUME NEW q \in Request, NEW s \in Subject, NEW rights \in Rights, Update(q, s, rights)
      PROVE  TypeOK'
  <2>1. 0 \in 0..MaxVersion + 1
    BY LimitsAssumption
  <2>2. born' \in SUBSET Subject
    BY <1>2 DEF Update, TypeOK
  <2> QED BY <1>2, <2>1, <2>2, ChangedRecords, ChangeTypes DEF Update
<1>3. ASSUME NEW q \in Request, NEW u \in User, ResetPassword(q, u)
      PROVE  TypeOK'
  <2>1. u \in Subject
    BY DEF Subject
  <2>2. born' \in SUBSET Subject
    BY <1>3 DEF ResetPassword, TypeOK
  <2> QED BY <1>3, <2>1, <2>2, ChangedRecords, ChangeTypes DEF ResetPassword
<1>4. ASSUME NEW q \in Request, NEW s \in Subject, Delete(q, s)
      PROVE  TypeOK'
  <2>1. MaxVersion + 1 \in 0..MaxVersion + 1
    BY LimitsAssumption
  <2>2. born' \in SUBSET Subject
    BY <1>4 DEF Delete, TypeOK
  <2> QED BY <1>4, <2>1, <2>2, ChangeTypes DEF Delete
<1>5. ASSUME NEW q \in Request, Confirm(q)
      PROVE  TypeOK'
  <2>1. job[q] \in [subject : Subject, floor : 0..MaxVersion + 1]
    BY <1>5 DEF Confirm, TypeOK
  <2>2. floor' \in [Subject -> 0..MaxVersion + 1]
    BY <1>5, <2>1 DEF Confirm, TypeOK
  <2> QED BY <1>5, <2>2 DEF Confirm, TypeOK, storeVars, tokenVars, connVars
<1>6. ASSUME NEW s \in Subject, KickUser(s)
      PROVE  TypeOK'
  BY <1>6 DEF KickUser, TypeOK, storeVars, tokenVars
<1>7. ASSUME NEW u \in User, NEW k \in Token, Login(u, k)
      PROVE  TypeOK'
  <2>1. u \in Subject /\ mem.rec[u] \in Record
    BY <1>7 DEF Login, TypeOK, Document, Subject
  <2>2. [subject |-> u, ver |-> mem.rec[u].ver] \in [subject : User, ver : 0..MaxVersion]
    BY <2>1 DEF Record
  <2>3. [subject |-> u, ver |-> mem.rec[u].ver] # None
    BY <2>2, NamesAssumption, LimitsAssumption
  <2>4. \A j \in Token : claims[j] # None => claims'[j] # None
    BY <1>7, <2>3 DEF Login, TypeOK
  <2> QED BY <1>7, <2>2, <2>4 DEF Login, TypeOK, storeVars, connVars
<1>8. ASSUME NEW k \in Key, IssueTicket(k)
      PROVE  TypeOK'
  <2>1. mem' \in Document
    BY <1>8, SweptType DEF IssueTicket
  <2>2. k \in Token => claims[k] # None
    BY <1>8, NamesAssumption DEF IssueTicket, Bearer
  <2> QED BY <1>8, <2>1, <2>2 DEF IssueTicket, TypeOK, connVars
<1>9. ASSUME NEW k \in Token, Logout(k)
      PROVE  TypeOK'
  <2>1. mem' \in Document
    BY <1>9 DEF Logout, TypeOK, Document
  <2> QED BY <1>9, <2>1 DEF Logout, TypeOK, Goroutine, tokenVars, connVars
<1>10. ASSUME NEW k \in Token, DisconnectToken(k)
       PROVE  TypeOK'
  BY <1>10 DEF DisconnectToken, TypeOK, storeVars, tokenVars
<1>11. ASSUME NEW k \in Token, LogoutFails(k)
       PROVE  TypeOK'
  BY <1>11 DEF LogoutFails, TypeOK, storeVars, tokenVars, connVars
<1>12. ASSUME NEW g \in Goroutine, Persist(g)
       PROVE  TypeOK'
  <2>1. disk' \in Document
    BY <1>12 DEF Persist, TypeOK
  <2>2. logout' \in [Token -> {"none", "revoked", "saved", "failed"}]
    BY <1>12 DEF Persist, TypeOK
  <2> QED BY <1>12, <2>1, <2>2 DEF Persist, TypeOK, tokenVars, connVars
<1>13. ASSUME Clean
       PROVE  TypeOK'
  <2>1. mem' \in Document
    BY <1>13 DEF Clean, TypeOK, Document
  <2> QED BY <1>13, <2>1 DEF Clean, TypeOK, Goroutine, tokenVars, connVars
<1>14. ASSUME NEW c \in Conn, NEW k \in Key, CheckToken(c, k)
       PROVE  TypeOK'
  <2>1. k \in Token => claims[k] # None
    BY <1>14, NamesAssumption DEF CheckToken, Bearer, TypeOK
  <2> QED BY <1>14, <2>1 DEF CheckToken, TypeOK, storeVars, tokenVars
<1>15. ASSUME NEW c \in Conn, Handler(c) \/ WatchBrowserAccess(c) \/ BrowserLeaves(c)
       PROVE  TypeOK'
  <2>1. CASE Admit(c)
    <3>1. mem' \in Document
      BY <2>1, SweptType DEF Admit
    <3>2. Claims(key[c]).subject \in Subject
      <4>1. CASE key[c] \in Share
        BY <4>1 DEF Claims, Subject
      <4>2. CASE key[c] \notin Share
        <5>1. claims[key[c]] \in [subject : User, ver : 0..MaxVersion]
          BY <2>1, <4>2 DEF Admit, TypeOK, Key
        <5> QED BY <4>2, <5>1 DEF Claims, Subject
      <4> QED BY <4>1, <4>2
    <3>3. peer' \in [Conn -> Record \cup {None}]
      BY <2>1, <3>2 DEF Admit, TypeOK, Document
    <3> QED BY <2>1, <3>1, <3>3 DEF Admit, TypeOK, tokenVars
  <2>2. CASE Deny(c)
    <3>1. mem' \in Document
      BY <2>2, SweptType DEF Deny
    <3> QED BY <2>2, <3>1 DEF Deny, TypeOK, tokenVars
  <2>3. CASE Upgrade(c) \/ AddBrowser(c)
    BY <2>3 DEF Upgrade, AddBrowser, TypeOK, storeVars, tokenVars
  <2>4. CASE EndBrowser(c)
    BY <2>4 DEF EndBrowser, TypeOK, storeVars, tokenVars
  <2>5. CASE WatchBrowserAccess(c)
    <3>1. mem' \in Document
      BY <2>5, SweptType DEF WatchBrowserAccess
    <3> QED BY <2>5, <3>1 DEF WatchBrowserAccess, TypeOK, tokenVars
  <2>6. CASE BrowserLeaves(c)
    BY <2>6 DEF BrowserLeaves, TypeOK, storeVars, tokenVars
  <2> QED BY <1>15, <2>1, <2>2, <2>3, <2>4, <2>5, <2>6 DEF Handler
<1>16. ASSUME Clock
       PROVE  TypeOK'
  <2>1. over' \in SUBSET (Subject \X Rights)
    <3>1. ASSUME NEW s \in Subject, NEW doc \in {mem, disk}, doc.rec[s] # None
          PROVE  <<s, doc.rec[s].rights>> \in Subject \X Rights
      BY <3>1 DEF TypeOK, Document, Record
    <3> QED BY <1>16, <3>1 DEF Clock, TypeOK
  <2>2. lapsed' \in SUBSET Token /\ tickets' \in SUBSET tickets
    BY <1>16 DEF Clock, TypeOK
  <2> QED BY <1>16, <2>1, <2>2 DEF Clock, TypeOK, storeVars, connVars
<1>17. ASSUME Restart
       PROVE  TypeOK'
  <2>1. restarts' \in 0..MaxRestarts
    BY <1>17, LimitsAssumption DEF Restart, TypeOK
  <2>2. pc' \in [Conn -> {"idle", "checked", "open", "serving", "done"}]
    BY <1>17 DEF Restart, TypeOK
  <2>3. \A c \in Conn : pc'[c] \notin {"checked", "open", "serving"}
    BY <1>17 DEF Restart, TypeOK
  <2> QED BY <1>17, <2>1, <2>2, <2>3 DEF Restart, TypeOK, tokenVars
<1>18. CASE UNCHANGED vars
  BY <1>18 DEF TypeOK, vars, storeVars, tokenVars, connVars
<1> QED
  BY <1>1, <1>2, <1>3, <1>4, <1>5, <1>6, <1>7, <1>8, <1>9, <1>10, <1>11, <1>12,
     <1>13, <1>14, <1>15, <1>16, <1>17, <1>18 DEF Next

\* Every variable keeps its type; a connection past the check has a key, and
\* the token or ticket behind it was really issued.
THEOREM TypeCorrect == Spec => []TypeOK
<1> QED BY TypeInit, TypeStep, PTL DEF Spec

-----------------------------------------------------------------------------
(* Logout *)

\* Looking for a share forgets no logout, and changes no record except to None.
LEMMA SweptKeeps ==
    ASSUME TypeOK, NEW k
    PROVE  /\ Swept(k).revoked = mem.revoked
           /\ \A s \in Subject : Swept(k).rec[s] \in {mem.rec[s], None}
<1>1. CASE k \in Share
  BY <1>1 DEF Swept, TypeOK, Document
<1>2. CASE k \notin Share
  BY <1>2 DEF Swept
<1> QED BY <1>1, <1>2

\* Steps that neither log out nor write nor let a token end.
LEMMA LogoutQuiet ==
    ASSUME LogoutStored, mem'.revoked = mem.revoked,
           UNCHANGED <<disk, lapsed, logout, loggedOut>>
    PROVE  LogoutStored'
BY DEF LogoutStored

LEMMA LogoutStep == LogoutInv /\ [Next]_vars => LogoutStored'
<1> SUFFICES ASSUME TypeOK, LogoutStored, [Next]_vars PROVE LogoutStored'
  BY DEF LogoutInv
<1>1. ASSUME NEW q \in Request, NEW s \in Subject, NEW r, NEW lowest, Change(q, s, r, lowest)
      PROVE  LogoutStored'
  <2>1. mem'.revoked = mem.revoked
    BY <1>1 DEF Change, TypeOK, Document
  <2> QED BY <1>1, <2>1, LogoutQuiet DEF Change
<1>2. ASSUME NEW q \in Request, Confirm(q)
      PROVE  LogoutStored'
  BY <1>2, LogoutQuiet DEF Confirm, storeVars, tokenVars
<1>3. ASSUME NEW s \in Subject, KickUser(s)
      PROVE  LogoutStored'
  BY <1>3, LogoutQuiet DEF KickUser, storeVars, tokenVars
<1>4. ASSUME NEW u \in User, NEW k \in Token, Login(u, k)
      PROVE  LogoutStored'
  BY <1>4, LogoutQuiet DEF Login, storeVars
<1>5. ASSUME NEW k \in Key, IssueTicket(k)
      PROVE  LogoutStored'
  BY <1>5, SweptKeeps, LogoutQuiet DEF IssueTicket
<1>6. ASSUME NEW k \in Token, Logout(k)
      PROVE  LogoutStored'
  <2>1. mem'.revoked = mem.revoked \cup {k}
    BY <1>6 DEF Logout, TypeOK, Document
  <2>2. logout' = [logout EXCEPT ![k] = "revoked"] /\ UNCHANGED <<disk, lapsed, loggedOut>>
    BY <1>6 DEF Logout, tokenVars
  <2> QED BY <2>1, <2>2 DEF LogoutStored, TypeOK
<1>7. ASSUME NEW k \in Token, DisconnectToken(k)
      PROVE  LogoutStored'
  <2>1. k \in disk.revoked \cup lapsed
    BY <1>7 DEF DisconnectToken, LogoutStored
  <2> QED BY <1>7, <2>1 DEF DisconnectToken, LogoutStored, TypeOK, storeVars, tokenVars
<1>8. ASSUME NEW k \in Token, LogoutFails(k)
      PROVE  LogoutStored'
  BY <1>8 DEF LogoutFails, LogoutStored, TypeOK, storeVars, tokenVars
<1>9. ASSUME NEW g \in Goroutine, Persist(g)
      PROVE  LogoutStored'
  <2>1. UNCHANGED <<mem, lapsed, loggedOut>>
    BY <1>9 DEF Persist, tokenVars
  <2>2. PICK ok \in {TRUE} \cup {~DbMayFail} :
            /\ IF ok THEN disk' = mem ELSE disk' \in {disk, mem}
            /\ logout' = [k \in Token |->
                    IF k = g /\ logout[k] = "revoked"
                    THEN IF ok THEN "saved" ELSE "failed" ELSE logout[k]]
    BY <1>9 DEF Persist
  <2>3. disk' \in {disk, mem}
    BY <2>2
  \* what was on disk and still counts is in memory, so either outcome keeps it
  <2>4. disk.revoked \subseteq disk'.revoked \cup lapsed /\ disk'.revoked \subseteq mem.revoked \cup lapsed
    BY <2>3 DEF LogoutStored
  <2>5. ASSUME NEW k \in Token, logout'[k] = "saved"
        PROVE  k \in disk'.revoked \cup lapsed
    <3>1. CASE logout[k] = "saved"
      BY <3>1, <2>4 DEF LogoutStored
    <3>2. CASE logout[k] # "saved"
      <4>1. logout[k] = "revoked" /\ disk' = mem
        BY <2>2, <2>5, <3>2
      <4> QED BY <4>1 DEF LogoutStored
    <3> QED BY <3>1, <3>2
  <2>6. ASSUME NEW k \in Token, logout'[k] = "revoked"
        PROVE  logout[k] = "revoked"
    BY <2>2, <2>6
  <2> QED BY <2>1, <2>4, <2>5, <2>6 DEF LogoutStored
<1>10. ASSUME Clean
       PROVE  LogoutStored'
  <2>1. mem'.revoked = mem.revoked \ lapsed
    BY <1>10 DEF Clean, TypeOK, Document
  <2>2. UNCHANGED <<disk, lapsed, logout, loggedOut>>
    BY <1>10 DEF Clean, tokenVars
  <2> QED BY <2>1, <2>2 DEF LogoutStored
<1>11. ASSUME NEW c \in Conn, NEW k \in Key, CheckToken(c, k)
       PROVE  LogoutStored'
  BY <1>11, LogoutQuiet DEF CheckToken, storeVars, tokenVars
<1>12. ASSUME NEW c \in Conn, Handler(c) \/ WatchBrowserAccess(c) \/ BrowserLeaves(c)
       PROVE  LogoutStored'
  <2>1. CASE Admit(c) \/ Deny(c) \/ WatchBrowserAccess(c)
    <3>1. mem' = Swept(key[c]) /\ UNCHANGED <<disk, lapsed, logout, loggedOut>>
      BY <2>1 DEF Admit, Deny, WatchBrowserAccess, tokenVars
    <3> QED BY <3>1, SweptKeeps, LogoutQuiet
  <2>2. CASE Upgrade(c) \/ AddBrowser(c) \/ EndBrowser(c) \/ BrowserLeaves(c)
    BY <2>2, LogoutQuiet DEF Upgrade, AddBrowser, EndBrowser, BrowserLeaves, storeVars,
       tokenVars
  <2> QED BY <1>12, <2>1, <2>2 DEF Handler
<1>13. ASSUME Clock
       PROVE  LogoutStored'
  <2>1. lapsed \subseteq lapsed'
    BY <1>13 DEF Clock
  <2>2. UNCHANGED <<mem, disk, logout, loggedOut>>
    BY <1>13 DEF Clock, storeVars
  <2> QED BY <2>1, <2>2 DEF LogoutStored
<1>14. ASSUME Restart
       PROVE  LogoutStored'
  <2>1. mem' = disk /\ UNCHANGED <<disk, lapsed, loggedOut>>
    BY <1>14 DEF Restart, tokenVars
  <2>2. \A k \in Token : logout'[k] = "none"
    BY <1>14 DEF Restart
  <2> QED BY <2>1, <2>2 DEF LogoutStored
<1>15. CASE UNCHANGED vars
  BY <1>15, LogoutQuiet DEF vars, storeVars, tokenVars
<1>16. CASE \E q \in Request, s \in Subject, rights \in Rights :
              Create(q, s, rights) \/ Update(q, s, rights)
  BY <1>1, <1>16 DEF Create, Update
<1>17. CASE \E q \in Request, u \in User : ResetPassword(q, u)
  BY <1>1, <1>17 DEF ResetPassword, Subject
<1>18. CASE \E q \in Request, s \in Subject : Delete(q, s)
  BY <1>1, <1>18 DEF Delete
<1> QED
  BY <1>2, <1>3, <1>4, <1>5, <1>6, <1>7, <1>8, <1>9, <1>10, <1>11, <1>12, <1>13,
     <1>14, <1>15, <1>16, <1>17, <1>18 DEF Next

\* From the memory of RevokeUserToken to the document and back after a restart,
\* a logout is never lost before its token ends, also when writes fail.
THEOREM LogoutKept == Spec => []LogoutInv
<1>1. Init => LogoutInv
  BY TypeInit DEF Init, LogoutInv, LogoutStored
<1>2. LogoutInv /\ [Next]_vars => LogoutInv'
  BY TypeStep, LogoutStep DEF LogoutInv
<1> QED BY <1>1, <1>2, PTL DEF Spec

\* Only CheckToken lets a connection in, only Admit reads its user.
LEMMA WhoAdmits ==
    ASSUME TypeOK, Next, NEW c \in Conn
    PROVE  /\ pc[c] = "idle" /\ pc'[c] = "checked" => \E k \in Key : CheckToken(c, k)
           /\ pc[c] = "checked" /\ pc'[c] = "admitted" => Admit(c)
<1>1. CASE UNCHANGED pc
  BY <1>1
<1>2. ASSUME NEW d \in Conn, NEW k \in Key, CheckToken(d, k)
      PROVE  (pc'[c] = pc[c]) \/ (d = c /\ pc[c] = "idle" /\ pc'[c] = "checked")
  BY <1>2 DEF CheckToken, TypeOK
<1>3. ASSUME NEW d \in Conn, Admit(d)
      PROVE  (pc'[c] = pc[c]) \/ (d = c /\ pc[c] = "checked" /\ pc'[c] = "admitted")
  BY <1>3 DEF Admit, TypeOK
<1>4. ASSUME NEW d \in Conn, Deny(d) \/ Upgrade(d) \/ AddBrowser(d) \/ EndBrowser(d)
      PROVE  (pc'[c] = pc[c]) \/ pc'[c] \in {"open", "serving", "done"}
  BY <1>4 DEF Deny, Upgrade, AddBrowser, EndBrowser, TypeOK
<1>5. CASE Restart
  BY <1>5 DEF Restart
<1>6. ASSUME NEW d \in Conn, WatchBrowserAccess(d) \/ BrowserLeaves(d)
      PROVE  UNCHANGED pc
  BY <1>6 DEF WatchBrowserAccess, BrowserLeaves
<1>7. ASSUME NEW q \in Request, NEW s \in Subject, NEW r, NEW lowest, Change(q, s, r, lowest)
      PROVE  UNCHANGED pc
  BY <1>7 DEF Change, connVars
<1>8. CASE \E q \in Request, s \in Subject, rights \in Rights :
             Create(q, s, rights) \/ Update(q, s, rights)
  BY <1>1, <1>7, <1>8 DEF Create, Update
<1>9. CASE \E q \in Request, u \in User : ResetPassword(q, u)
  BY <1>1, <1>7, <1>9 DEF ResetPassword, Subject
<1>10. CASE \E q \in Request, s \in Subject : Delete(q, s)
  BY <1>1, <1>7, <1>10 DEF Delete
<1>11. CASE \E q \in Request : Confirm(q)
  BY <1>1, <1>11 DEF Confirm, connVars
<1>12. CASE \E s \in Subject : KickUser(s)
  BY <1>1, <1>12 DEF KickUser
<1>13. CASE \E u \in User, k \in Token : Login(u, k)
  BY <1>1, <1>13 DEF Login, connVars
<1>14. CASE \E k \in Key : IssueTicket(k)
  BY <1>1, <1>14 DEF IssueTicket, connVars
<1>15. CASE \E k \in Token : Logout(k) \/ DisconnectToken(k) \/ LogoutFails(k)
  BY <1>1, <1>15 DEF Logout, DisconnectToken, LogoutFails, connVars
<1>16. CASE \E g \in Goroutine : Persist(g)
  BY <1>1, <1>16 DEF Persist, connVars
<1>17. CASE Clean \/ Clock
  BY <1>1, <1>17 DEF Clean, Clock, connVars
<1>18. CASE \E d \in Conn, k \in Key : CheckToken(d, k)
  BY <1>2, <1>18
<1>19. CASE \E d \in Conn : Handler(d) \/ WatchBrowserAccess(d) \/ BrowserLeaves(d)
  BY <1>1, <1>3, <1>4, <1>6, <1>19 DEF Handler
<1> QED
  BY <1>5, <1>8, <1>9, <1>10, <1>11, <1>12, <1>13, <1>14, <1>15, <1>16, <1>17,
     <1>18, <1>19 DEF Next

\* A confirmed logout turns away every later request of its token or tickets,
\* over restarts and failed writes.
THEOREM LogoutFinal == Spec => LogoutIsFinal
<1>1. LogoutInv /\ [Next]_vars =>
        [\A c \in Conn : pc[c] = "idle" /\ pc'[c] = "checked" =>
            key'[c] \notin loggedOut \ lapsed]_vars
  <2> SUFFICES ASSUME LogoutInv, Next, NEW c \in Conn, pc[c] = "idle", pc'[c] = "checked"
               PROVE  key'[c] \notin loggedOut \ lapsed
    OBVIOUS
  <2>1. TypeOK /\ LogoutStored
    BY DEF LogoutInv
  <2>2. PICK k \in Key : CheckToken(c, k)
    BY <2>1, WhoAdmits
  <2>3. key'[c] = k
    BY <2>1, <2>2 DEF CheckToken, TypeOK
  <2>4. k \in Token => k \notin mem.revoked \ lapsed
    BY <2>2 DEF CheckToken, UserTokenRevoked
  <2> QED BY <2>1, <2>3, <2>4 DEF LogoutStored, TypeOK
<1> QED BY <1>1, LogoutKept, PTL DEF Spec, LogoutIsFinal

-----------------------------------------------------------------------------
(* Password resets, deletions, revoked shares *)

\* Steps that change records, if at all, to None.
LEMMA WithdrawalQuiet ==
    ASSUME TypeOK, WithdrawalStored,
           \A s \in Subject : mem'.rec[s] \in {mem.rec[s], None},
           UNCHANGED <<disk, born, job, floor>>,
           \A q \in Request : q \notin unsaved' => q \notin unsaved
    PROVE  WithdrawalStored'
<1>1. ASSUME NEW s \in Subject, NEW n, NoOlder(mem, s, n) PROVE NoOlder(mem', s, n)
  BY <1>1 DEF NoOlder
<1>2. ASSUME NEW s \in Subject, NEW n, NoOlder(disk, s, n) PROVE NoOlder(disk', s, n)
  BY <1>2 DEF NoOlder
<1>3. \A s \in Subject \ born' : mem'.rec[s] = None /\ disk'.rec[s] = None /\ floor'[s] = 0
  BY DEF WithdrawalStored
<1>4. \A s \in Subject : NoOlder(mem', s, floor'[s]) /\ NoOlder(disk', s, floor'[s])
  BY <1>1, <1>2 DEF WithdrawalStored
<1>5. ASSUME NEW q \in Request, job'[q] # None
      PROVE  /\ job'[q].subject \in born'
             /\ NoOlder(mem', job'[q].subject, job'[q].floor)
             /\ q \notin unsaved' => NoOlder(disk', job'[q].subject, job'[q].floor)
  <2>1. job[q].subject \in Subject
    BY <1>5 DEF TypeOK
  <2> QED BY <1>1, <1>2, <1>5, <2>1 DEF WithdrawalStored
<1> QED BY <1>3, <1>4, <1>5 DEF WithdrawalStored

\* A record is replaced by a newer one, or made for an identifier nobody knew.
LEMMA WithdrawalChange ==
    ASSUME TypeOK, WithdrawalStored,
           NEW q \in Request, NEW s \in Subject,
           NEW r \in Record \cup {None}, NEW lowest \in 0..MaxVersion + 1,
           Change(q, s, r, lowest),
           born' = born \cup {s},
           r # None =>
             /\ r.ver >= lowest
             /\ (mem.rec[s] # None /\ r.ver >= mem.rec[s].ver) \/ s \notin born
    PROVE  WithdrawalStored'
<1>1. /\ mem'.rec = [mem.rec EXCEPT ![s] = r]
      /\ job' = [job EXCEPT ![q] = [subject |-> s, floor |-> lowest]]
      /\ unsaved' = unsaved \cup {q}
      /\ UNCHANGED <<disk, floor>>
  BY DEF Change, TypeOK, Document
<1>2. mem.rec \in [Subject -> Record \cup {None}]
  BY DEF TypeOK, Document
<1>3. \A t \in Subject \ born' : mem'.rec[t] = None /\ disk'.rec[t] = None /\ floor'[t] = 0
  BY <1>1, <1>2 DEF WithdrawalStored
<1>4. ASSUME NEW n \in Nat, NoOlder(mem, s, n), s \notin born => n = 0
      PROVE  NoOlder(mem', s, n)
  <2> SUFFICES ASSUME r # None PROVE r.ver >= n
    BY <1>1, <1>2 DEF NoOlder
  <2>1. r \in Record /\ r.ver \in Nat
    BY LimitsAssumption DEF Record
  <2>2. CASE mem.rec[s] # None /\ r.ver >= mem.rec[s].ver
    <3>1. mem.rec[s].ver \in Nat
      BY <1>2, <2>2, LimitsAssumption DEF Record
    <3> QED BY <1>4, <2>1, <2>2, <3>1 DEF NoOlder
  <2>3. CASE s \notin born
    BY <1>4, <2>1, <2>3
  <2> QED BY <2>2, <2>3
<1>5. floor[s] \in Nat /\ (s \notin born => floor[s] = 0)
  BY LimitsAssumption DEF TypeOK, WithdrawalStored
<1>6. \A t \in Subject : NoOlder(mem', t, floor'[t]) /\ NoOlder(disk', t, floor'[t])
  <2>1. NoOlder(mem', s, floor[s])
    BY <1>4, <1>5 DEF WithdrawalStored
  <2>2. ASSUME NEW t \in Subject, t # s PROVE NoOlder(mem', t, floor[t])
    BY <1>1, <1>2, <2>2 DEF WithdrawalStored, NoOlder
  <2> QED BY <1>1, <2>1, <2>2 DEF WithdrawalStored, NoOlder
<1>7. ASSUME NEW p \in Request, job'[p] # None
      PROVE  /\ job'[p].subject \in born'
             /\ NoOlder(mem', job'[p].subject, job'[p].floor)
             /\ p \notin unsaved' => NoOlder(disk', job'[p].subject, job'[p].floor)
  <2>1. CASE p = q
    <3>1. job'[p].subject = s /\ job'[p].floor = lowest /\ p \in unsaved'
      BY <1>1, <2>1 DEF TypeOK
    <3> QED BY <1>1, <1>2, <3>1 DEF NoOlder
  <2>2. CASE p # q
    <3>1. job'[p] = job[p] /\ job[p] \in [subject : Subject, floor : 0..MaxVersion + 1]
      BY <1>1, <1>7, <2>2 DEF TypeOK
    <3>2. /\ job[p].subject \in born
          /\ NoOlder(mem, job[p].subject, job[p].floor)
          /\ p \notin unsaved => NoOlder(disk, job[p].subject, job[p].floor)
      BY <1>7, <3>1 DEF WithdrawalStored
    <3>3. NoOlder(mem', job[p].subject, job[p].floor)
      <4>1. CASE job[p].subject = s
        BY <1>4, <3>1, <3>2, <4>1, LimitsAssumption
      <4>2. CASE job[p].subject # s
        BY <1>1, <1>2, <3>1, <3>2, <4>2 DEF NoOlder
      <4> QED BY <4>1, <4>2
    <3> QED BY <1>1, <3>1, <3>2, <3>3 DEF NoOlder
  <2> QED BY <2>1, <2>2
<1> QED BY <1>3, <1>6, <1>7 DEF WithdrawalStored

LEMMA WithdrawalStep ==
    ASSUME DbMayFail = FALSE
    PROVE  WithdrawalInv /\ [Next]_vars => WithdrawalStored'
<1> SUFFICES ASSUME TypeOK, WithdrawalStored, [Next]_vars PROVE WithdrawalStored'
  BY DEF WithdrawalInv
<1>a. 0 \in 0..MaxVersion + 1 /\ MaxVersion + 1 \in 0..MaxVersion + 1
  BY LimitsAssumption
<1>b. ASSUME NEW s \in Subject, mem.rec[s] # None PROVE born = born \cup {s}
  BY <1>b DEF WithdrawalStored
<1>1. ASSUME NEW q \in Request, NEW s \in Subject, NEW rights \in Rights, Create(q, s, rights)
      PROVE  WithdrawalStored'
  <2>1. [ver |-> 0, rights |-> rights] \in Record
    BY LimitsAssumption DEF Record
  <2> QED BY <1>1, <1>a, <2>1, WithdrawalChange DEF Create
<1>2. ASSUME NEW q \in Request, NEW s \in Subject, NEW rights \in Rights, Update(q, s, rights)
      PROVE  WithdrawalStored'
  <2> DEFINE r == [mem.rec[s] EXCEPT !.rights = rights]
  <2>1. mem.rec[s] # None /\ mem.rec[s] \in Record /\ r \in Record
    BY <1>2, ChangedRecords DEF Update
  <2>2. r.ver >= 0 /\ r.ver >= mem.rec[s].ver
    BY <2>1, LimitsAssumption DEF Record
  <2>3. Change(q, s, r, 0) /\ born' = born
    BY <1>2 DEF Update
  <2> HIDE DEF r
  <2> QED BY <1>a, <1>b, <2>1, <2>2, <2>3, WithdrawalChange
<1>3. ASSUME NEW q \in Request, NEW u \in User, ResetPassword(q, u)
      PROVE  WithdrawalStored'
  <2> DEFINE r == [mem.rec[u] EXCEPT !.ver = @ + 1]
  <2>1. u \in Subject
    BY DEF Subject
  <2>2. /\ mem.rec[u] # None /\ mem.rec[u] \in Record /\ r \in Record
        /\ mem.rec[u].ver + 1 \in 0..MaxVersion + 1
    BY <1>3, <2>1, ChangedRecords DEF ResetPassword
  <2>3. r.ver >= mem.rec[u].ver + 1 /\ r.ver >= mem.rec[u].ver
    BY <2>2, LimitsAssumption DEF Record
  <2>4. Change(q, u, r, mem.rec[u].ver + 1) /\ born' = born
    BY <1>3 DEF ResetPassword
  <2> HIDE DEF r
  <2> QED BY <1>b, <2>1, <2>2, <2>3, <2>4, WithdrawalChange
<1>4. ASSUME NEW q \in Request, NEW s \in Subject, Delete(q, s)
      PROVE  WithdrawalStored'
  BY <1>4, <1>a, <1>b, WithdrawalChange DEF Delete
<1>5. ASSUME NEW q \in Request, Confirm(q)
      PROVE  WithdrawalStored'
  <2>1. /\ job[q] # None /\ q \notin unsaved
        /\ job[q] \in [subject : Subject, floor : 0..MaxVersion + 1]
    BY <1>5 DEF Confirm, TypeOK
  <2>2. /\ floor' = [floor EXCEPT ![job[q].subject] =
                        IF @ < job[q].floor THEN job[q].floor ELSE @]
        /\ job' = [job EXCEPT ![q] = None]
        /\ UNCHANGED <<mem, disk, unsaved, born>>
    BY <1>5 DEF Confirm, storeVars, tokenVars
  \* the answer is given after the write: neither copy is older
  <2>3. /\ job[q].subject \in born
        /\ NoOlder(mem, job[q].subject, job[q].floor)
        /\ NoOlder(disk, job[q].subject, job[q].floor)
    BY <2>1 DEF WithdrawalStored
  <2>4. \A s \in Subject : floor'[s] = floor[s] \/ (s = job[q].subject /\ floor'[s] = job[q].floor)
    BY <2>1, <2>2 DEF TypeOK
  <2>5. \A s \in Subject : NoOlder(mem, s, floor'[s]) /\ NoOlder(disk, s, floor'[s])
    BY <2>3, <2>4 DEF WithdrawalStored
  <2>6. \A s \in Subject \ born : floor'[s] = 0
    BY <2>3, <2>4 DEF WithdrawalStored
  <2>7. \A p \in Request : job'[p] # None => job'[p] = job[p]
    BY <2>2 DEF TypeOK
  <2> QED BY <2>2, <2>5, <2>6, <2>7 DEF WithdrawalStored, NoOlder
<1>6. ASSUME NEW s \in Subject, KickUser(s)
      PROVE  WithdrawalStored'
  BY <1>6, WithdrawalQuiet DEF KickUser, storeVars, tokenVars
<1>7. ASSUME NEW u \in User, NEW k \in Token, Login(u, k)
      PROVE  WithdrawalStored'
  BY <1>7, WithdrawalQuiet DEF Login, storeVars
<1>8. ASSUME NEW k \in Key, IssueTicket(k)
      PROVE  WithdrawalStored'
  BY <1>8, SweptKeeps, WithdrawalQuiet DEF IssueTicket
<1>9. ASSUME NEW k \in Token, Logout(k)
      PROVE  WithdrawalStored'
  <2>1. mem'.rec = mem.rec
    BY <1>9 DEF Logout, TypeOK, Document
  <2> QED BY <1>9, <2>1, WithdrawalQuiet DEF Logout, tokenVars
<1>10. ASSUME NEW k \in Token, DisconnectToken(k) \/ LogoutFails(k)
       PROVE  WithdrawalStored'
  BY <1>10, WithdrawalQuiet DEF DisconnectToken, LogoutFails, storeVars, tokenVars
<1>11. ASSUME NEW g \in Goroutine, Persist(g)
       PROVE  WithdrawalStored'
  <2>1. UNCHANGED <<mem, born, job, floor>>
    BY <1>11 DEF Persist, tokenVars
  <2>2. disk' = mem
    <3>1. \A ok \in {TRUE} \cup {~DbMayFail} : ok
      OBVIOUS
    <3> QED BY <1>11, <3>1, Zenon DEF Persist
  <2> QED BY <2>1, <2>2 DEF WithdrawalStored, NoOlder
<1>12. ASSUME Clean
       PROVE  WithdrawalStored'
  <2>1. mem'.rec = mem.rec
    BY <1>12 DEF Clean, TypeOK, Document
  <2> QED BY <1>12, <2>1, WithdrawalQuiet DEF Clean, tokenVars
<1>13. ASSUME NEW c \in Conn, NEW k \in Key, CheckToken(c, k)
       PROVE  WithdrawalStored'
  BY <1>13, WithdrawalQuiet DEF CheckToken, storeVars, tokenVars
<1>14. ASSUME NEW c \in Conn, Handler(c) \/ WatchBrowserAccess(c) \/ BrowserLeaves(c)
       PROVE  WithdrawalStored'
  <2>1. CASE Admit(c) \/ Deny(c) \/ WatchBrowserAccess(c)
    <3>1. mem' = Swept(key[c]) /\ UNCHANGED <<disk, born, job, floor, unsaved>>
      BY <2>1 DEF Admit, Deny, WatchBrowserAccess, tokenVars
    <3> QED BY <3>1, SweptKeeps, WithdrawalQuiet
  <2>2. CASE Upgrade(c) \/ AddBrowser(c) \/ EndBrowser(c) \/ BrowserLeaves(c)
    BY <2>2, WithdrawalQuiet DEF Upgrade, AddBrowser, EndBrowser, BrowserLeaves, storeVars,
       tokenVars
  <2> QED BY <1>14, <2>1, <2>2 DEF Handler
<1>15. ASSUME Clock
       PROVE  WithdrawalStored'
  BY <1>15, WithdrawalQuiet DEF Clock, storeVars
<1>16. ASSUME Restart
       PROVE  WithdrawalStored'
  <2>1. mem' = disk /\ UNCHANGED <<disk, born, floor>>
    BY <1>16 DEF Restart, tokenVars
  <2>2. \A q \in Request : job'[q] = None
    BY <1>16 DEF Restart
  <2> QED BY <2>1, <2>2 DEF WithdrawalStored, NoOlder
<1>17. CASE UNCHANGED vars
  BY <1>17, WithdrawalQuiet DEF vars, storeVars, tokenVars
<1> QED
  BY <1>1, <1>2, <1>3, <1>4, <1>5, <1>6, <1>7, <1>8, <1>9, <1>10, <1>11, <1>12,
     <1>13, <1>14, <1>15, <1>16, <1>17 DEF Next

\* While writes succeed, no copy of a record is older than what was confirmed.
THEOREM WithdrawalKept ==
    ASSUME DbMayFail = FALSE
    PROVE  Spec => []WithdrawalInv
<1>1. Init => WithdrawalInv
  BY TypeInit DEF Init, WithdrawalInv, WithdrawalStored, NoOlder
<1>2. WithdrawalInv /\ [Next]_vars => WithdrawalInv'
  BY TypeStep, WithdrawalStep DEF WithdrawalInv
<1> QED BY <1>1, <1>2, PTL DEF Spec

\* No request that looks its user or share up after the confirmation of a password
\* reset, deletion or revocation is let in with the older login, also after a
\* restart.
THEOREM WithdrawalFinal ==
    ASSUME DbMayFail = FALSE
    PROVE  Spec => WithdrawalIsFinal
<1>1. WithdrawalInv /\ [Next]_vars =>
        [\A c \in Conn : pc[c] = "checked" /\ pc'[c] = "admitted" =>
            Claims(key[c]).ver >= floor[Claims(key[c]).subject]]_vars
  <2> SUFFICES ASSUME WithdrawalInv, Next, NEW c \in Conn, pc[c] = "checked", pc'[c] = "admitted"
               PROVE  Claims(key[c]).ver >= floor[Claims(key[c]).subject]
    OBVIOUS
  <2>1. TypeOK /\ WithdrawalStored
    BY DEF WithdrawalInv
  <2>2. UserForToken(key[c])
    BY <2>1, WhoAdmits DEF Admit
  <2>3. Claims(key[c]).subject \in Subject
    <3>1. CASE key[c] \in Share
      BY <3>1 DEF Claims, Subject
    <3>2. CASE key[c] \notin Share
      <4>1. claims[key[c]] \in [subject : User, ver : 0..MaxVersion]
        BY <2>1, <3>2 DEF TypeOK, Key
      <4> QED BY <3>2, <4>1 DEF Claims, Subject
    <3> QED BY <3>1, <3>2
  <2> QED BY <2>1, <2>2, <2>3 DEF UserForToken, WithdrawalStored, NoOlder
<1> QED BY <1>1, WithdrawalKept, PTL DEF Spec, WithdrawalIsFinal
=============================================================================
