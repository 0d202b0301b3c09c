------------------------ MODULE ReceiveSessionProofs ------------------------
(***************************************************************************)
(* What TLAPS proves of ReceiveSession for every set of requests, senders, *)
(* files and uploads and every value of the limits.                        *)
(***************************************************************************)
EXTENDS ReceiveSession, TLAPS

-----------------------------------------------------------------------------
\* The records of the model: what their fields are and what the operations on
\* a session leave alone.

LEMMA SessionFields ==
  ASSUME NEW s \in Session
  PROVE  /\ s # NoSession
         /\ s.id \in Request /\ s.status \in SessionStatus /\ s.open \in BOOLEAN
         /\ s.files \in [File -> FileStatus \cup {"absent"}]
         /\ s.tokens \subseteq File /\ s.by \in Request
BY DEF Session, NoSession

LEMMA NewSessionFields ==
  ASSUME NEW r \in Request
  PROVE  /\ NewSession(r) \in Session
         /\ NewSession(r).id = r /\ NewSession(r).status = "waiting"
         /\ NewSession(r).tokens = {} /\ NewSession(r).open = TRUE /\ NewSession(r).by = r
         /\ NewSession(r).files = [f \in File |-> IF f \in FilesOf[r] THEN "queue" ELSE "absent"]
BY DEF NewSession, Session, SessionStatus, FileStatus

LEMMA AcceptedFields ==
  ASSUME NEW s \in Session, NEW selection \in SUBSET File, NEW page \in Request
  PROVE  /\ Accepted(s, selection, page) \in Session
         /\ Accepted(s, selection, page).id = s.id
         /\ Accepted(s, selection, page).status = "sending"
         /\ Accepted(s, selection, page).open = FALSE
         /\ Accepted(s, selection, page).by = page
BY DEF Accepted, Session, SessionStatus, FileStatus

LEMMA AcceptedSelection ==
  ASSUME NEW s \in Session, NEW selection \in SUBSET File, NEW page \in Request
  PROVE  /\ \A f \in File : f \in Accepted(s, selection, page).tokens
                             <=> f \in selection /\ s.files[f] # "absent"
         /\ \A f \in File : Accepted(s, selection, page).files[f] =
                             IF s.files[f] = "absent" THEN "absent"
                             ELSE IF f \in selection THEN "queue" ELSE "skipped"
BY DEF Accepted, Session, SessionStatus, FileStatus

LEMMA QuickFields ==
  ASSUME NEW r \in Request
  PROVE  LET s == Accepted(NewSession(r), FilesOf[r], r) IN
         /\ s \in Session /\ s.id = r /\ s.status = "sending" /\ s.tokens = FilesOf[r]
         /\ s.open = FALSE /\ s.by = r
         /\ \A f \in File : s.files[f] = IF f \in FilesOf[r] THEN "queue" ELSE "absent"
<1>1. FilesOf[r] \subseteq File
  BY ReceiveAssumption
<1>2. QED
  BY <1>1 DEF Accepted, NewSession, Session, SessionStatus, FileStatus

LEMMA FileFinishedFields ==
  ASSUME NEW s \in Session, NEW f \in File, NEW st \in FileStatus
  PROVE  /\ fileFinished(s, f, st) \in Session
         /\ fileFinished(s, f, st).id = s.id
         /\ fileFinished(s, f, st).status = s.status
         /\ fileFinished(s, f, st).tokens = s.tokens
         /\ fileFinished(s, f, st).open = s.open /\ fileFinished(s, f, st).by = s.by
         /\ fileFinished(s, f, st).files = [s.files EXCEPT ![f] = st]
BY DEF fileFinished, Session

LEMMA StatusFields ==
  ASSUME NEW s \in Session, NEW st \in SessionStatus
  PROVE  /\ [s EXCEPT !.status = st] \in Session
         /\ [s EXCEPT !.status = st].id = s.id
         /\ [s EXCEPT !.status = st].status = st
         /\ [s EXCEPT !.status = st].tokens = s.tokens
         /\ [s EXCEPT !.status = st].open = s.open /\ [s EXCEPT !.status = st].by = s.by
         /\ [s EXCEPT !.status = st].files = s.files
BY DEF Session

LEMMA BeginFields ==
  ASSUME NEW s \in Session, NEW f \in File
  PROVE  LET t == [s EXCEPT !.files[f] = "sending", !.status = "sending"] IN
         /\ t \in Session
         /\ t.id = s.id /\ t.status = "sending" /\ t.tokens = s.tokens /\ t.open = s.open
         /\ t.by = s.by /\ t.files = [s.files EXCEPT ![f] = "sending"]
BY DEF Session, SessionStatus, FileStatus

LEMMA UploadFields ==
  ASSUME NEW x \in UploadState
  PROVE  /\ x.at \in {"idle", "saving", "200", "500", "thrown", "history"}
         /\ x.at # "idle" => x.sid \in Request /\ x.file \in File
BY DEF UploadState

LEMMA MovedFields ==
  ASSUME upload \in [Upload -> UploadState], NEW u \in Upload, upload[u].at # "idle",
         NEW how \in {"200", "500", "thrown", "history"}
  PROVE  /\ Moved(u, how) \in [Upload -> UploadState]
         /\ Moved(u, how)[u].at = how
         /\ Moved(u, how)[u].sid = upload[u].sid
         /\ Moved(u, how)[u].file = upload[u].file
         /\ \A v \in Upload \ {u} : Moved(u, how)[v] = upload[v]
<1>1. upload[u].sid \in Request /\ upload[u].file \in File
  BY UploadFields
<1>2. [at |-> how, sid |-> upload[u].sid, file |-> upload[u].file] \in UploadState
  BY <1>1 DEF UploadState
<1>3. QED BY <1>2 DEF Moved

-----------------------------------------------------------------------------
\* The end of an upload handler.

LEMMA RespondFacts ==
  ASSUME TypeOK, NEW u \in Upload, upload[u].at \in {"saving", "history"},
         NEW s \in Session \cup {NoSession}, Respond(u, s)
  PROVE  /\ upload' \in [Upload -> UploadState]
         /\ upload'[u].at \in {"200", "500"}
         /\ upload'[u].sid = upload[u].sid /\ upload'[u].file = upload[u].file
         /\ \A v \in Upload \ {u} : upload'[v] = upload[v]
         /\ upload'[u].at = "200" =>
              s \in Session /\ s.files[upload[u].file] = "finished"
         /\ closing' \subseteq Upload
         /\ s = NoSession => session' = NoSession
         /\ s \in Session =>
              /\ session' \in Session
              /\ session'.id = s.id /\ session'.files = s.files
              /\ session'.tokens = s.tokens /\ session'.open = s.open /\ session'.by = s.by
              /\ IF Receiving(s) /\ isFinishedOrError(s)
                   THEN session'.status = IF \E g \in File : s.files[g] = "failed"
                                            THEN "finishedWithErrors" ELSE "finished"
                   ELSE session'.status = s.status
<1> DEFINE f == upload[u].file
           done == Receiving(s) /\ isFinishedOrError(s)
           st == IF \E g \in File : s.files[g] = "failed"
                   THEN "finishedWithErrors" ELSE "finished"
           how == IF HasFile(s, f) /\ s.files[f] = "finished" THEN "200" ELSE "500"
<1>1. upload \in [Upload -> UploadState] /\ upload[u].at # "idle"
  BY DEF TypeOK
<1>2. upload[u].sid \in Request /\ f \in File
  BY <1>1, UploadFields
<1>3. upload' = Moved(u, how) /\ how \in {"200", "500"}
  BY DEF Respond
<1>4. /\ upload' \in [Upload -> UploadState]
      /\ upload'[u].at = how
      /\ upload'[u].sid = upload[u].sid /\ upload'[u].file = upload[u].file
      /\ \A v \in Upload \ {u} : upload'[v] = upload[v]
  BY <1>1, <1>3, MovedFields
<1>5. how = "200" => s \in Session /\ s.files[f] = "finished"
  BY DEF HasFile
<1>6. closing' \subseteq Upload
  BY DEF Respond, TypeOK
<1>8. session' = IF done THEN [s EXCEPT !.status = st] ELSE s
  BY DEF Respond
<1>9. st \in SessionStatus
  BY DEF SessionStatus
<1>10. s = NoSession => session' = NoSession
  BY <1>8 DEF Receiving
<1>11. s \in Session =>
         /\ session' \in Session
         /\ session'.id = s.id /\ session'.files = s.files
         /\ session'.tokens = s.tokens /\ session'.open = s.open /\ session'.by = s.by
         /\ session'.status = IF done THEN st ELSE s.status
  BY <1>8, <1>9, StatusFields
<1>12. QED
  BY <1>3, <1>4, <1>5, <1>6, <1>10, <1>11

-----------------------------------------------------------------------------
\* The inductive invariant.

\* The /prepare-upload of a session is past its checks.  A session has exactly
\* the files its request announced, tokens only for them and only once its
\* handler has answered 200; while it takes a decision, nobody has decided and
\* its handler is still to come to the answer.
SessionShape ==
    session # NoSession =>
      /\ prepare[session.id] \notin {"idle", "checked"}
      /\ \A f \in File : session.files[f] = "absent" <=> f \notin FilesOf[session.id]
      /\ session.tokens \subseteq FilesOf[session.id]
      /\ session.tokens # {} => prepare[session.id] = "200"
      /\ session.open => /\ session.tokens = {}
                         /\ session.status \in {"waiting", "canceledBySender"}
                         /\ prepare[session.id] \in {"stored", "noting", "waiting", "thrown"}
                         /\ decision[session.id] = {}

\* A file with a token is not skipped, and the uploads of the session are of
\* files with a token, unless a selection of another session was applied to it.
TokenShape ==
    session # NoSession =>
      /\ \A f \in session.tokens : session.files[f] # "skipped"
      /\ \/ \A u \in Upload : upload[u].at # "idle" /\ upload[u].sid = session.id
                                => upload[u].file \in session.tokens
         \/ session.tokens = {} /\ session.by # session.id

\* A decision in a stream was made on the page of an earlier session, with
\* files of sessions up to the stream's own.
DecisionShape ==
    \A q \in Request : \A d \in decision[q] :
      /\ prepare[q] \in {"stored", "noting", "thrown"}
      /\ prepare[d.page] \notin {"idle", "checked"}
      /\ session # NoSession => d.page # session.id
      /\ session # NoSession /\ session.id # q => d.files \cap FilesOf[session.id] = {}
      /\ \A r \in Request : prepare[r] \in {"idle", "checked"} => d.files \cap FilesOf[r] = {}

\* A page is pushed by a handler that comes to its wait.  The selection has no
\* files of sessions to come, and on its own page a session has only its own.
PageShape ==
    /\ \A p \in Request : pages[p] # "none" =>
         /\ prepare[p] \notin {"idle", "checked", "stored", "noting"}
         /\ session # NoSession /\ session.id = p => prepare[p] # "thrown"
         /\ session # NoSession /\ session.id = p /\ pages[p] = "files"
              => selected \subseteq FilesOf[p]
    /\ \A r \in Request : prepare[r] \in {"idle", "checked"} => selected \cap FilesOf[r] = {}

\* An upload is for a file of a request that was answered 200, and a handler
\* that adds to the history has saved its file.
UploadShape ==
    \A u \in Upload :
      /\ upload[u].at # "idle" => /\ prepare[upload[u].sid] = "200"
                                  /\ upload[u].file \in FilesOf[upload[u].sid]
      /\ upload[u].at = "history" => <<upload[u].sid, upload[u].file>> \in saved

\* While a session takes files, a file that is being sent is being saved by
\* one of its uploads.
SendingHasUpload ==
    Receiving(session) =>
      \A f \in File : session.files[f] = "sending" =>
        \E u \in Upload : /\ upload[u].at = "saving"
                          /\ upload[u].sid = session.id /\ upload[u].file = f

Safe ==
    /\ SessionShape /\ TokenShape /\ UploadShape /\ SendingHasUpload
    /\ FinishedWasSaved /\ ActiveSessionHasWork /\ AnsweredOkIsStored

Asked == DecisionShape /\ PageShape

IInv == TypeOK /\ Safe /\ Asked

LEMMA SessionType == TypeOK /\ session # NoSession => session \in Session
BY DEF TypeOK

\* Requests do not share files: an upload whose file is in the session is one
\* of the session.
LEMMA SameSession ==
  ASSUME TypeOK, Safe, NEW u \in Upload, upload[u].at \in {"saving", "history"},
         HasFile(session, upload[u].file)
  PROVE  /\ session \in Session /\ session.id = upload[u].sid
         /\ session.files[upload[u].file] # "absent"
<1>1. session \in Session /\ session.id \in Request
  BY SessionType, SessionFields DEF HasFile
<1>2. upload[u] \in UploadState
  BY DEF TypeOK
<1>3. upload[u].sid \in Request /\ upload[u].file \in File
  BY <1>2, UploadFields
<1>4. upload[u].file \in FilesOf[session.id]
  BY <1>1, <1>3, SessionFields DEF Safe, SessionShape, HasFile
<1>5. upload[u].file \in FilesOf[upload[u].sid]
  BY DEF Safe, UploadShape
<1>6. session.id = upload[u].sid
  BY <1>1, <1>3, <1>4, <1>5, ReceiveAssumption
<1>7. QED
  BY <1>1, <1>6 DEF HasFile

\* A handler that ends without touching the session, which does not wait for it.
LEMMA QuitKeeps ==
  ASSUME TypeOK, Safe, NEW u \in Upload, upload[u].at \in {"saving", "history"},
         NEW how \in {"500", "thrown"}, upload' = Moved(u, how),
         Receiving(session) => session.id # upload[u].sid,
         session' = session, prepare' = prepare, decision' = decision, saved \subseteq saved'
  PROVE  Safe'
<1>1. upload \in [Upload -> UploadState] /\ upload[u].at # "idle"
  BY DEF TypeOK
<1>2. /\ upload'[u].at = how
      /\ upload'[u].sid = upload[u].sid /\ upload'[u].file = upload[u].file
      /\ \A v \in Upload \ {u} : upload'[v] = upload[v]
  BY <1>1, MovedFields
<1>3. SessionShape' /\ FinishedWasSaved'
  BY DEF Safe, SessionShape, FinishedWasSaved
<1>4. UploadShape' /\ TokenShape'
  BY <1>2 DEF Safe, UploadShape, TokenShape
<1>5. SendingHasUpload'
  <2> SUFFICES ASSUME Receiving(session), NEW f \in File, session.files[f] = "sending"
               PROVE  \E v \in Upload : /\ upload'[v].at = "saving"
                                        /\ upload'[v].sid = session.id /\ upload'[v].file = f
    BY DEF SendingHasUpload, Receiving
  <2>1. PICK v \in Upload : /\ upload[v].at = "saving"
                            /\ upload[v].sid = session.id /\ upload[v].file = f
    BY DEF Safe, SendingHasUpload
  <2>2. v # u
    BY <2>1
  <2>3. QED BY <1>2, <2>1, <2>2
<1>6. ActiveSessionHasWork'
  <2> SUFFICES ASSUME session # NoSession, session.status = "sending",
                      \A f \in File : session.files[f] # "queue",
                      ~(session.by # session.id /\ session.tokens = {})
               PROVE  \E v \in Upload : /\ upload'[v].at \in {"saving", "history"}
                                        /\ upload'[v].sid = session.id
    BY DEF ActiveSessionHasWork
  <2>1. PICK v \in Upload : /\ upload[v].at \in {"saving", "history"}
                            /\ upload[v].sid = session.id
    BY DEF Safe, ActiveSessionHasWork
  <2>2. v # u
    BY <2>1 DEF Receiving, allowedStates
  <2>3. QED BY <1>2, <2>1, <2>2
<1>7. AnsweredOkIsStored'
  BY <1>2 DEF Safe, AnsweredOkIsStored
<1>8. QED
  BY <1>3, <1>4, <1>5, <1>6, <1>7 DEF Safe

\* A handler that answers from the session as it finds it, or after its file
\* has failed.
LEMMA RespondKeeps ==
  ASSUME TypeOK, Safe, NEW u \in Upload, upload[u].at \in {"saving", "history"},
         NEW s,
         \/ s = session /\ (upload[u].at = "saving" => session = NoSession)
         \/ HasFile(session, upload[u].file) /\ s = fileFinished(session, upload[u].file, "failed"),
         Respond(u, s), prepare' = prepare, decision' = decision, saved \subseteq saved'
  PROVE  Safe'
<1> DEFINE f == upload[u].file
<1>1. upload \in [Upload -> UploadState] /\ upload[u] \in UploadState
  BY DEF TypeOK
<1>2. f \in File /\ upload[u].sid \in Request
  BY <1>1, UploadFields
<1>3. CASE session = NoSession
  <2>1. s = NoSession
    BY <1>3 DEF HasFile
  <2>2. /\ session' = NoSession
        /\ upload'[u].at \in {"200", "500"}
        /\ upload'[u].sid = upload[u].sid /\ upload'[u].file = upload[u].file
        /\ \A v \in Upload \ {u} : upload'[v] = upload[v]
    BY <2>1, RespondFacts
  <2>3. upload'[u].at # "200"
    BY <2>1, RespondFacts, SessionFields
  <2>4. UploadShape' /\ AnsweredOkIsStored'
    BY <2>2, <2>3 DEF Safe, UploadShape, AnsweredOkIsStored
  <2>5. QED
    BY <2>2, <2>4
       DEF Safe, SessionShape, TokenShape, SendingHasUpload, FinishedWasSaved,
           ActiveSessionHasWork, Receiving
<1>4. CASE session # NoSession
  <2>1. session \in Session
    BY <1>4, SessionType
  <2>2. /\ s \in Session /\ s.id = session.id /\ s.status = session.status
        /\ s.tokens = session.tokens /\ s.open = session.open /\ s.by = session.by
        /\ \A g \in File : \/ s.files[g] = session.files[g]
                           \/ /\ g = f
                              /\ s.files[g] = "failed"
                              /\ session.files[g] # "absent"
        /\ s.files[f] = "failed" \/ (upload[u].at = "history" /\ s = session)
    <3>1. CASE s = session /\ (upload[u].at = "saving" => session = NoSession)
      BY <2>1, <3>1, <1>4
    <3>2. CASE HasFile(session, f) /\ s = fileFinished(session, f, "failed")
      <4>1. /\ s \in Session /\ s.id = session.id /\ s.status = session.status
            /\ s.tokens = session.tokens /\ s.open = session.open /\ s.by = session.by
            /\ s.files = [session.files EXCEPT ![f] = "failed"]
        BY <1>2, <2>1, <3>2, FileFinishedFields DEF FileStatus
      <4>2. session.files \in [File -> FileStatus \cup {"absent"}]
        BY <2>1, SessionFields
      <4>4. session.files[f] # "absent"
        BY <3>2, SameSession
      <4>3. QED BY <1>2, <4>1, <4>2, <4>4
    <3>3. QED BY <3>1, <3>2
  <2> DEFINE done == Receiving(s) /\ isFinishedOrError(s)
             st == IF \E g \in File : s.files[g] = "failed"
                     THEN "finishedWithErrors" ELSE "finished"
  <2>3. /\ session' \in Session
        /\ session'.id = s.id /\ session'.files = s.files
        /\ session'.tokens = s.tokens /\ session'.open = s.open /\ session'.by = s.by
        /\ session'.status = IF done THEN st ELSE s.status
    BY <2>2, RespondFacts
  <2>4. /\ upload'[u].at \in {"200", "500"}
        /\ upload'[u].sid = upload[u].sid /\ upload'[u].file = f
        /\ \A v \in Upload \ {u} : upload'[v] = upload[v]
        /\ upload'[u].at = "200" => s.files[f] = "finished"
    BY <2>2, RespondFacts
  <2>5. session' # NoSession /\ s # NoSession
    BY <2>2, <2>3, SessionFields
  <2>6. done => session.status \in allowedStates /\ s.open = FALSE
    BY <1>4, <2>1, <2>2, SessionFields DEF Receiving, allowedStates, Safe, SessionShape
  <2>7. SessionShape'
    BY <1>4, <2>2, <2>3, <2>5, <2>6 DEF Safe, SessionShape
  <2>8. UploadShape'
    BY <2>4 DEF Safe, UploadShape
  <2>15. TokenShape'
    BY <1>4, <2>1, <2>2, <2>3, <2>4, SessionFields DEF Safe, TokenShape
  <2>9. FinishedWasSaved'
    <3> SUFFICES ASSUME NEW g \in File,
                        \/ s.files[g] = "finished"
                        \/ session'.status = "finished" /\ g \in session.tokens
                 PROVE  <<session.id, g>> \in saved
      BY <2>2, <2>3, <2>5 DEF FinishedWasSaved
    <3>1. CASE s.files[g] = "finished"
      BY <1>4, <2>2, <3>1 DEF Safe, FinishedWasSaved
    <3>2. CASE done /\ g \in session.tokens /\ session'.status = "finished"
      <4>1. s.files[g] \in {"absent", "skipped", "failed", "finished"} /\ s.files[g] # "failed"
        BY <2>3, <3>2 DEF isFinishedOrError
      <4>2. session.files[g] \notin {"absent", "skipped"}
        BY <1>4, <3>2 DEF Safe, SessionShape, TokenShape
      <4>3. QED BY <2>2, <3>1, <4>1, <4>2
    <3>3. CASE ~done /\ g \in session.tokens /\ session'.status = "finished"
      BY <1>4, <2>2, <2>3, <3>3 DEF Safe, FinishedWasSaved
    <3>4. QED BY <3>1, <3>2, <3>3
  <2>10. AnsweredOkIsStored'
    <3>1. ASSUME upload'[u].at = "200"
          PROVE  <<upload[u].sid, f>> \in saved
      <4>1. s.files[f] = "finished" /\ s = session /\ upload[u].at = "history"
        BY <2>2, <2>4, <3>1
      <4>2. HasFile(session, f)
        BY <1>4, <4>1 DEF HasFile
      <4>3. QED BY <1>4, <1>2, <4>1, <4>2, SameSession DEF Safe, FinishedWasSaved
    <3>2. QED
      BY <2>4, <3>1 DEF Safe, AnsweredOkIsStored
  <2>11. ASSUME Receiving(session), NEW g \in File, s.files[g] = "sending"
         PROVE  \E v \in Upload : /\ upload'[v].at = "saving"
                                  /\ upload'[v].sid = session.id /\ upload'[v].file = g
    <3>1. session.files[g] = "sending"
      BY <2>2, <2>11
    <3>2. PICK v \in Upload : /\ upload[v].at = "saving"
                              /\ upload[v].sid = session.id /\ upload[v].file = g
      BY <2>11, <3>1 DEF Safe, SendingHasUpload
    <3>3. v # u
      BY <2>2, <2>11, <3>1, <3>2
    <3>4. QED BY <2>4, <3>2, <3>3
  <2>12. SendingHasUpload'
    <3> SUFFICES ASSUME Receiving(session)', NEW g \in File, s.files[g] = "sending"
                 PROVE  \E v \in Upload : /\ upload'[v].at = "saving"
                                          /\ upload'[v].sid = session.id /\ upload'[v].file = g
      BY <2>2, <2>3 DEF SendingHasUpload
    <3>1. ~done
      BY DEF isFinishedOrError
    <3>2. Receiving(session)
      BY <1>4, <2>2, <2>3, <3>1 DEF Receiving
    <3>3. QED BY <3>2, <2>11
  <2>13. ActiveSessionHasWork'
    <3> SUFFICES ASSUME session'.status = "sending", \A g \in File : s.files[g] # "queue",
                        ~(session.by # session.id /\ session.tokens = {})
                 PROVE  \E v \in Upload : /\ upload'[v].at \in {"saving", "history"}
                                          /\ upload'[v].sid = session.id
      BY <2>2, <2>3 DEF ActiveSessionHasWork
    <3>1. ~done /\ s.status = "sending" /\ Receiving(s) /\ Receiving(session)
      BY <1>4, <2>2, <2>3, <2>5 DEF Receiving, allowedStates
    <3>2. PICK g \in File : s.files[g] \notin {"absent", "skipped", "failed", "finished"}
      BY <3>1 DEF isFinishedOrError
    <3>3. s.files[g] = "sending"
      BY <2>2, <3>2, SessionFields DEF FileStatus
    <3>4. QED BY <2>11, <3>1, <3>3
  <2>14. QED
    BY <2>7, <2>8, <2>9, <2>10, <2>12, <2>13, <2>15 DEF Safe
<1>5. QED BY <1>3, <1>4

-----------------------------------------------------------------------------
\* Typing.

LEMMA TypeInit == Init => TypeOK
BY ReceiveAssumption DEF Init, TypeOK, Up, UploadState, PrepareState

LEMMA CatchType ==
  ASSUME TypeOK, NEW u \in Upload, upload[u].at \in {"saving", "history"}, Catch(u)
  PROVE  /\ session' \in Session \cup {NoSession}
         /\ session = NoSession => session' = NoSession
         /\ upload' \in [Upload -> UploadState]
         /\ closing' \subseteq Upload
<1> DEFINE f == upload[u].file
<1>1. upload \in [Upload -> UploadState] /\ upload[u] \in UploadState /\ upload[u].at # "idle"
  BY DEF TypeOK
<1>2. f \in File /\ upload[u].sid \in Request
  BY <1>1, UploadFields
<1>3. ASSUME Throw(u)
      PROVE  /\ session' \in Session \cup {NoSession}
             /\ session = NoSession => session' = NoSession
             /\ upload' \in [Upload -> UploadState]
             /\ closing' \subseteq Upload
  BY <1>1, <1>2, <1>3, MovedFields DEF Throw, TypeOK
<1>4. CASE Up /\ session = NoSession /\ Respond(u, NoSession)
  BY <1>4, RespondFacts
<1>5. CASE Up /\ HasFile(session, f) /\ Respond(u, fileFinished(session, f, "failed"))
  <2>1. session \in Session /\ session # NoSession
    BY <1>5, SessionType DEF HasFile
  <2>2. fileFinished(session, f, "failed") \in Session
    BY <1>2, <2>1, FileFinishedFields DEF FileStatus
  <2>3. QED BY <1>5, <2>1, <2>2, RespondFacts
<1>6. QED
  BY <1>3, <1>4, <1>5 DEF Catch

LEMMA ConcludedType ==
  ASSUME TypeOK, NEW r \in Request, NEW d \in UserDecision, Concluded(r, d)
  PROVE  /\ session' \in Session \cup {NoSession}
         /\ session = NoSession => session' = NoSession
         /\ \E code \in PrepareState \ {"idle", "checked"} : Answer(r, code)
<1>1. d.files \in SUBSET File /\ d.page \in Request
  BY DEF UserDecision
<1>2. CASE session # NoSession /\ session' = Accepted(session, d.files, d.page)
           /\ Answer(r, "200")
  <2>1. session \in Session
    BY <1>2, SessionType
  <2>2. session' \in Session
    BY <1>1, <1>2, <2>1, AcceptedFields
  <2>3. QED
    BY <1>2, <2>2 DEF TypeOK, PrepareState
<1>3. CASE closeSession /\ \E code \in {"204", "403"} : Answer(r, code)
  BY <1>3 DEF closeSession, TypeOK, PrepareState
<1>4. CASE session' = session
           /\ \E code \in {"thrown", "500"} : Answer(r, code)
  BY <1>4 DEF TypeOK, PrepareState
<1>5. QED
  BY <1>2, <1>3, <1>4 DEF Concluded

LEMMA PrepareType ==
  ASSUME TypeOK, NEW r \in Request, Prepare(r)
  PROVE  TypeOK'
<1> USE DEF userVars
<1>0. \A code \in PrepareState : Answer(r, code) => prepare' \in [Request -> PrepareState]
  BY DEF Answer, TypeOK
<1>1. CASE PrepareReceived(r)
  <2>1. IpOf[r] \in Ip
    BY ReceiveAssumption
  <2>2. pin_attempts' \in [Ip -> 0 .. MAX_ATTEMPTS]
    BY <1>1, <2>1, ReceiveAssumption DEF PrepareReceived, Locked, TypeOK
  <2>3. prepare' \in [Request -> PrepareState]
    BY <1>0, <1>1 DEF PrepareReceived, PrepareState
  <2>4. QED
    BY <1>1, <2>2, <2>3 DEF PrepareReceived, TypeOK, Up
<1>2. CASE PrepareMalformed(r)
  <2>1. prepare' \in [Request -> PrepareState]
    BY <1>0, <1>2 DEF PrepareMalformed, PrepareState
  <2>2. QED
    BY <1>2, <2>1 DEF PrepareMalformed, TypeOK, Up
<1>3. ASSUME NEW quick \in QuickSave, OpenSession(r, quick)
      PROVE  TypeOK'
  <2>1. NewSession(r) \in Session /\ Accepted(NewSession(r), FilesOf[r], r) \in Session
    BY NewSessionFields, QuickFields
  <2>2. session' \in Session \cup {NoSession} /\ (~Up => session' = session)
    BY <1>3, <2>1 DEF OpenSession, TypeOK
  <2>3. prepare' \in [Request -> PrepareState]
    BY <1>0, <1>3 DEF OpenSession, PrepareState
  <2>4. QED
    BY <1>3, <2>2, <2>3 DEF OpenSession, TypeOK, Up
<1>4. ASSUME NEW page \in {"blank", "unseen"}, PushPage(r, page) \/ PrepareThrows(r),
             UNCHANGED <<server, restarts, pin_attempts, selected, upload, closing, saved>>
      PROVE  TypeOK'
  <2>1. /\ session' \in Session \cup {NoSession} /\ (session = NoSession => session' = NoSession)
        /\ prepare' \in [Request -> PrepareState]
    <3>1. CASE session' = session /\ \E code \in PrepareState : Answer(r, code)
      BY <1>0, <3>1 DEF TypeOK
    <3>2. ASSUME NEW d \in decision[r], Concluded(r, d)
          PROVE  <2>1!1 /\ <2>1!2
      <4>1. d \in UserDecision
        BY DEF TypeOK
      <4>2. QED
        BY <1>0, <3>2, <4>1, ConcludedType
    <3>3. QED
      BY <1>4, <3>1, <3>2 DEF PushPage, PrepareThrows, PrepareState
  <2>2. decision' \in [Request -> SUBSET UserDecision]
    BY <1>4 DEF PushPage, PrepareThrows, TypeOK
  <2>3. pages' \in [Request -> {"none", "blank", "files", "unseen", "message"}]
    BY <1>4 DEF PushPage, PrepareThrows, TypeOK
  <2>4. QED
    BY <1>4, <2>1, <2>2, <2>3 DEF TypeOK, Up
<1>5. CASE WindowShown(r)
  <2>1. CASE Answer(r, "noting") /\ UNCHANGED <<session, decision, pages>>
    <3>1. prepare' \in [Request -> PrepareState]
      BY <1>0, <2>1 DEF PrepareState
    <3>2. QED
      BY <1>5, <2>1, <3>1 DEF WindowShown, TypeOK, Up
  <2>2. QED
    BY <1>4, <1>5, <2>1 DEF WindowShown
<1>6. CASE MessageNoted(r)
  BY <1>4, <1>6 DEF MessageNoted
<1>7. QED BY <1>1, <1>2, <1>3, <1>5, <1>6 DEF Prepare

LEMMA OpenFields ==
  ASSUME NEW s \in Session
  PROVE  LET t == [s EXCEPT !.open = FALSE] IN
         /\ t \in Session /\ t.id = s.id /\ t.status = s.status /\ t.tokens = s.tokens
         /\ t.open = FALSE /\ t.by = s.by /\ t.files = s.files
BY DEF Session

LEMMA PageType ==
  ASSUME TypeOK, NEW p \in Request, Page(p)
  PROVE  TypeOK'
<1> USE DEF handlerVars
<1>1. CASE FirstFrame(p) \/ TurnsBlank(p)
  <2>1. pages' \in [Request -> {"none", "blank", "files", "unseen", "message"}]
    BY <1>1 DEF FirstFrame, TurnsBlank, TypeOK
  <2>2. selected' \subseteq File
    BY <1>1 DEF FirstFrame, TurnsBlank, TypeOK
  <2>3. QED
    BY <1>1, <2>1, <2>2 DEF FirstFrame, TurnsBlank, TypeOK, Up
<1>2. CASE ClosePage(p)
  BY <1>2 DEF ClosePage, PageClosed, closeSession, TypeOK, Up
<1>3. ASSUME NEW d \in UserDecision, Decide(d), PageClosed(p), selected' \subseteq File,
             UNCHANGED <<server, restarts, pin_attempts, upload, closing, saved>>
      PROVE  TypeOK'
  <2>1. pages' \in [Request -> {"none", "blank", "files", "unseen", "message"}]
    BY <1>3 DEF PageClosed, TypeOK
  <2>2. CASE session # NoSession /\ Concluded(session.id, d) /\ decision' = decision
    <3>1. session.id \in Request
      BY <2>2, SessionType, SessionFields
    <3>2. prepare' \in [Request -> PrepareState] /\ session' \in Session \cup {NoSession}
      BY <2>2, <3>1, ConcludedType DEF Answer, TypeOK
    <3>3. QED
      BY <1>3, <2>1, <2>2, <3>2 DEF TypeOK, Up
  <2>3. CASE /\ session # NoSession /\ session' = [session EXCEPT !.open = FALSE]
             /\ decision' = [decision EXCEPT ![session.id] = {d}]
             /\ prepare' = prepare
    <3>1. session \in Session /\ session' \in Session
      BY <2>3, SessionType, OpenFields
    <3>2. decision' \in [Request -> SUBSET UserDecision]
      BY <2>3 DEF TypeOK
    <3>3. QED
      BY <1>3, <2>1, <2>3, <3>1, <3>2 DEF TypeOK, Up
  <2>4. CASE UNCHANGED <<session, decision, prepare>>
    BY <1>3, <2>1, <2>4 DEF TypeOK, Up
  <2>5. QED BY <1>3, <2>2, <2>3, <2>4 DEF Decide
<1>4. ASSUME NEW files \in SUBSET File, AcceptFiles(p, files)
      PROVE  TypeOK'
  <2> DEFINE d == [accept |-> TRUE, files |-> files, page |-> p]
  <2>1. d \in UserDecision
    BY DEF UserDecision
  <2>2. Decide(d)
    BY <1>4 DEF AcceptFiles
  <2> HIDE DEF d
  <2>3. QED
    BY <1>3, <1>4, <2>1, <2>2 DEF AcceptFiles
<1>5. CASE AcceptMessage(p)
  <2> DEFINE d == [accept |-> TRUE, files |-> {}, page |-> p]
  <2>1. d \in UserDecision
    BY DEF UserDecision
  <2>2. Decide(d)
    BY <1>5 DEF AcceptMessage
  <2> HIDE DEF d
  <2>3. QED
    BY <1>3, <1>5, <2>1, <2>2 DEF AcceptMessage, TypeOK
<1>6. CASE Decline(p)
  <2> DEFINE d == [accept |-> FALSE, files |-> {}, page |-> p]
  <2>1. d \in UserDecision
    BY DEF UserDecision
  <2>2. Decide(d) \/ UNCHANGED <<session, decision, prepare>>
    BY <1>6 DEF Decline
  <2> HIDE DEF d
  <2>3. CASE UNCHANGED <<session, decision, prepare>>
    BY <1>6, <2>3 DEF Decline, PageClosed, TypeOK, Up
  <2>4. QED
    BY <1>3, <1>6, <2>1, <2>2, <2>3 DEF Decline, TypeOK
<1>7. QED BY <1>1, <1>2, <1>4, <1>5, <1>6 DEF Page

LEMMA UploadStepType ==
  ASSUME TypeOK, NEW u \in Upload, UploadStep(u)
  PROVE  TypeOK'
<1> DEFINE f == upload[u].file
<1> USE DEF userVars, handlerVars
<1>1. upload \in [Upload -> UploadState] /\ upload[u] \in UploadState
  BY DEF TypeOK
<1>2. upload[u].at # "idle" => f \in File /\ upload[u].sid \in Request
  BY <1>1, UploadFields
<1>4. CASE UploadSaved(u)
  <2>1. upload[u].at = "saving"
    BY <1>4 DEF UploadSaved
  <2>2. saved' \subseteq Request \X File
    BY <1>2, <1>4, <2>1 DEF UploadSaved, TypeOK
  <2>3. CASE Up /\ ~Receiving(session) /\ upload' = Moved(u, "500")
             /\ UNCHANGED <<session, closing>>
    BY <1>1, <1>4, <2>1, <2>2, <2>3, MovedFields DEF UploadSaved, TypeOK, Up
  <2>4. CASE Up /\ Receiving(session) /\ session' = fileFinished(session, f, "finished")
             /\ upload' = Moved(u, "history") /\ closing' = closing
    <3>1. session' \in Session
      BY <1>2, <2>1, <2>4, SessionType, FileFinishedFields DEF Receiving, FileStatus
    <3>2. upload' \in [Upload -> UploadState]
      BY <1>1, <2>1, <2>4, MovedFields
    <3>3. QED BY <1>4, <2>2, <2>4, <3>1, <3>2 DEF UploadSaved, TypeOK, Up
  <2>5. CASE Catch(u)
    BY <1>4, <2>1, <2>2, <2>5, CatchType DEF UploadSaved, TypeOK, Up
  <2>6. QED BY <1>4, <2>3, <2>4, <2>5 DEF UploadSaved
<1>5. CASE UploadFailed(u)
  BY <1>5, CatchType DEF UploadFailed, TypeOK, Up
<1>6. CASE HistoryFails(u)
  BY <1>6, CatchType DEF HistoryFails, TypeOK, Up
<1>7. CASE HistoryAdded(u)
  <2>1. upload[u].at = "history"
    BY <1>7 DEF HistoryAdded
  <2>2. CASE Up /\ Respond(u, session)
    <3>1. session \in Session \cup {NoSession}
      BY DEF TypeOK
    <3>2. /\ session' \in Session \cup {NoSession}
          /\ upload' \in [Upload -> UploadState]
          /\ closing' \subseteq Upload
      BY <2>1, <2>2, <3>1, RespondFacts
    <3>3. QED BY <1>7, <2>2, <3>2 DEF HistoryAdded, TypeOK, Up
  <2>3. CASE ~Up /\ Throw(u)
    BY <1>1, <1>2, <1>7, <2>1, <2>3, MovedFields DEF HistoryAdded, Throw, TypeOK, Up
  <2>4. QED BY <1>7, <2>2, <2>3 DEF HistoryAdded
<1>8. CASE DelayedClose(u)
  BY <1>8 DEF DelayedClose, NoPages, closeSession, TypeOK, Up
<1>9. QED
  BY <1>4, <1>5, <1>6, <1>7, <1>8 DEF UploadStep

LEMMA TypeStep == TypeOK /\ [Next]_vars => TypeOK'
<1> SUFFICES ASSUME TypeOK, [Next]_vars
             PROVE  TypeOK'
  OBVIOUS
<1> USE DEF userVars, handlerVars
<1>0. CASE UNCHANGED vars
  BY <1>0 DEF vars, TypeOK, Up
<1>1. ASSUME NEW u \in Upload, NEW ip \in Ip, NEW r \in Request, NEW f \in File,
             UploadBegin(u, ip, r, f)
      PROVE  TypeOK'
  <2>1. session \in Session
    BY <1>1, SessionType DEF UploadBegin, UploadVerdict
  <2>2. session' \in Session
    BY <1>1, <2>1, BeginFields DEF UploadBegin
  <2>3. upload' \in [Upload -> UploadState]
    BY <1>1 DEF UploadBegin, TypeOK, UploadState
  <2>4. QED BY <1>1, <2>2, <2>3 DEF UploadBegin, TypeOK, Up
<1>2. ASSUME NEW ip \in Ip, NEW r \in Request, CancelReceived(ip, r)
      PROVE  TypeOK'
  <2>1. session \in Session
    BY <1>2, SessionType DEF CancelReceived, CancelVerdict
  <2>2. session' \in Session
    BY <1>2, <2>1, StatusFields DEF CancelReceived, SessionStatus
  <2>3. QED BY <1>2, <2>2 DEF CancelReceived, TypeOK, Up
<1>3. CASE StopServer \/ ServerClosed \/ StartServer
  BY <1>3, ReceiveAssumption DEF StopServer, ServerClosed, StartServer, TypeOK, Up
<1>4. CASE CloseSession \/ CancelSession
  BY <1>4 DEF CloseSession, CancelSession, NoPages, closeSession, TypeOK, Up
<1>5. QED
  BY <1>0, <1>1, <1>2, <1>3, <1>4, PrepareType, PageType, UploadStepType DEF Next

\* Every variable of the receiver keeps its type, a stopped server has no
\* session, and no address has more than MAX_ATTEMPTS wrong PINs counted.
THEOREM TypeCorrect == Spec => []TypeOK
BY TypeInit, TypeStep, PTL DEF Spec

-----------------------------------------------------------------------------
\* Safety.

LEMMA SafeInit == Init => Safe /\ Asked
BY DEF Init, Safe, SessionShape, TokenShape, UploadShape, SendingHasUpload, FinishedWasSaved,
       ActiveSessionHasWork, AnsweredOkIsStored, Receiving, Asked, DecisionShape, PageShape

\* A step that closes the session, or finds none, and leaves the uploads alone.
LEMMA ClosedKeeps ==
  ASSUME TypeOK, Safe, session' = NoSession, upload' = upload, saved' = saved,
         \A r \in Request : prepare[r] = "200" => prepare'[r] = "200"
  PROVE  Safe'
<1>1. \A u \in Upload : upload[u].at # "idle" => upload[u].sid \in Request
  BY UploadFields DEF TypeOK
<1>2. UploadShape'
  BY <1>1 DEF Safe, UploadShape
<1>3. QED
  BY <1>2 DEF Safe, SessionShape, TokenShape, SendingHasUpload, FinishedWasSaved,
              ActiveSessionHasWork, AnsweredOkIsStored, Receiving

\* A step that leaves the session and the uploads alone, and the session's
\* handler on its way.
LEMMA SameKeeps ==
  ASSUME TypeOK, Safe, session' = session, upload' = upload, saved' = saved,
         \A r \in Request : prepare[r] = "200" => prepare'[r] = "200",
         session # NoSession =>
           /\ prepare'[session.id] \notin {"idle", "checked"}
           /\ session.open => /\ prepare'[session.id] \in {"stored", "noting", "waiting", "thrown"}
                              /\ decision'[session.id] = {}
  PROVE  Safe'
<1>1. \A u \in Upload : upload[u].at # "idle" => upload[u].sid \in Request
  BY UploadFields DEF TypeOK
<1>2. session # NoSession => session.id \in Request
  BY SessionType, SessionFields
<1>3. UploadShape' /\ SessionShape'
  BY <1>1, <1>2 DEF Safe, UploadShape, SessionShape
<1>4. QED
  BY <1>3 DEF Safe, TokenShape, SendingHasUpload, FinishedWasSaved,
              ActiveSessionHasWork, AnsweredOkIsStored, Receiving

\* The same for a step that leaves the handlers and the decisions alone, too.
LEMMA IdleKeeps ==
  ASSUME TypeOK, Safe, session' = session, upload' = upload, saved' = saved,
         prepare' = prepare, decision' = decision
  PROVE  Safe'
BY SameKeeps DEF Safe, SessionShape

\* Files are accepted by the handler of r.  They may be for another session
\* than the one of r, or picked on another page; then they may have none of
\* the session's.
LEMMA AcceptedKeeps ==
  ASSUME TypeOK, Safe, session \in Session, NEW q \in Request, q = session.id,
         NEW r \in Request, prepare[r] \in {"stored", "noting", "waiting"}, Answer(r, "200"),
         NEW fs \in SUBSET File, NEW page \in Request, session' = Accepted(session, fs, page),
         upload' = upload, saved' = saved,
         page = q => fs \cap FilesOf[q] # {},
         q # r => fs \cap FilesOf[q] = {} /\ page # q
  PROVE  Safe'
<1> DEFINE s == Accepted(session, fs, page)
<1>1. s \in Session /\ s.id = session.id /\ s.status = "sending" /\ s.open = FALSE /\ s.by = page
  BY AcceptedFields
<1>2. \A f \in File :
        /\ f \in s.tokens <=> f \in fs /\ session.files[f] # "absent"
        /\ s.files[f] = IF session.files[f] = "absent" THEN "absent"
                        ELSE IF f \in fs THEN "queue" ELSE "skipped"
  BY AcceptedSelection
<1>3. session' = s
  OBVIOUS
<1> HIDE DEF s
<1>4. s.id = q /\ s.tokens \subseteq File /\ s # NoSession /\ session # NoSession
  BY <1>1, SessionFields
<1>5. prepare[q] \notin {"idle", "checked"}
      /\ \A f \in File : session.files[f] = "absent" <=> f \notin FilesOf[q]
  BY <1>4 DEF Safe, SessionShape
<1>6. \A f \in File : f \in s.tokens <=> f \in fs \cap FilesOf[q]
  BY <1>2, <1>5
<1>7. FilesOf[q] \subseteq File
  BY ReceiveAssumption
<1>8. s.tokens = fs \cap FilesOf[q]
  BY <1>4, <1>6, <1>7
<1>9. (s.tokens # {} => q = r) /\ (s.tokens = {} => s.by # s.id)
  BY <1>1, <1>4, <1>8
<1>10. /\ prepare'[r] = "200" /\ \A p \in Request \ {r} : prepare'[p] = prepare[p]
       /\ \A p \in Request : prepare[p] = "200" => prepare'[p] = "200"
  BY DEF Answer, TypeOK
<1>11. \A u \in Upload : upload[u].at # "idle" =>
          upload[u].sid \in Request /\ upload[u].sid # r /\ prepare[upload[u].sid] = "200"
  BY UploadFields DEF TypeOK, Safe, UploadShape
<1>12. SessionShape'
  <2>1. prepare'[q] \notin {"idle", "checked"} /\ (s.tokens # {} => prepare'[q] = "200")
    BY <1>5, <1>9, <1>10
  <2>2. \A f \in File : s.files[f] = "absent" <=> f \notin FilesOf[q]
    BY <1>2, <1>5
  <2>3. s.tokens \subseteq FilesOf[q]
    BY <1>8
  <2>4. QED BY <1>1, <1>3, <1>4, <2>1, <2>2, <2>3 DEF SessionShape
<1>13. TokenShape'
  <2>1. \A f \in s.tokens : s.files[f] # "skipped"
    BY <1>2, <1>4
  <2>2. s.tokens # {} => \A u \in Upload : upload[u].at # "idle" => upload[u].sid # s.id
    BY <1>4, <1>9, <1>11
  <2>3. QED
    BY <1>3, <1>9, <2>1, <2>2 DEF TokenShape
<1>14. UploadShape' /\ AnsweredOkIsStored'
  BY <1>10, <1>11 DEF Safe, UploadShape, AnsweredOkIsStored
<1>15. SendingHasUpload' /\ FinishedWasSaved'
  <2>1. \A f \in File : s.files[f] \notin {"sending", "finished"}
    BY <1>2
  <2>2. QED BY <1>1, <1>3, <2>1 DEF SendingHasUpload, FinishedWasSaved
<1>16. ActiveSessionHasWork'
  <2>1. s.tokens # {} => \E f \in File : s.files[f] = "queue"
    BY <1>2, <1>4
  <2>2. QED BY <1>3, <1>9, <2>1 DEF ActiveSessionHasWork
<1>17. QED BY <1>12, <1>13, <1>14, <1>15, <1>16 DEF Safe

\* A handler goes on with a decision.
LEMMA ConcludedSafe ==
  ASSUME TypeOK, Safe, NEW r \in Request, NEW d \in UserDecision,
         prepare[r] \in {"stored", "noting", "waiting"}, Concluded(r, d),
         upload' = upload, saved' = saved,
         session # NoSession /\ d.files # {} /\ d.page = session.id
           => d.files \cap FilesOf[session.id] # {},
         session # NoSession /\ session.id # r
           => d.files \cap FilesOf[session.id] = {} /\ d.page # session.id
  PROVE  Safe'
<1>1. \A p \in Request : prepare[p] = "200" => prepare'[p] = "200"
  BY DEF Concluded, Answer, TypeOK
<1>2. CASE session' = NoSession
  BY <1>1, <1>2, ClosedKeeps
<1>3. CASE session' = session /\ ~Up
  BY <1>1, <1>3, ClosedKeeps DEF TypeOK
<1>4. CASE /\ session # NoSession /\ d.files # {}
           /\ session' = Accepted(session, d.files, d.page)
           /\ Answer(r, "200")
  <2>1. session \in Session
    BY <1>4, SessionType
  <2>2. PICK q \in Request : q = session.id
    BY <2>1, SessionFields
  <2>3. PICK fs \in SUBSET File, page \in Request : fs = d.files /\ page = d.page
    BY DEF UserDecision
  <2>4. session' = Accepted(session, fs, page)
    BY <1>4, <2>3
  <2>5. (page = q => fs \cap FilesOf[q] # {}) /\ (q # r => fs \cap FilesOf[q] = {} /\ page # q)
    BY <1>4, <2>2, <2>3
  <2>6. QED BY <1>4, <2>1, <2>2, <2>4, <2>5, AcceptedKeeps
<1>5. QED
  BY <1>2, <1>3, <1>4 DEF Concluded, closeSession

\* A new session: of a handler whose checks are past, with no decision yet.
LEMMA OpenSessionSafe ==
  ASSUME TypeOK, Safe, Asked, NEW r \in Request, NEW quick \in QuickSave, OpenSession(r, quick)
  PROVE  Safe'
<1> USE DEF userVars, Answer
<1>0. prepare \in [Request -> PrepareState]
  BY DEF TypeOK
<1>1. prepare[r] = "checked" /\ upload' = upload /\ saved' = saved /\ decision' = decision
  BY DEF OpenSession
<1>2. FilesOf[r] \in SUBSET File /\ FilesOf[r] # {}
  BY ReceiveAssumption
<1>3. \A u \in Upload : upload[u].at # "idle" =>
         upload[u].sid \in Request /\ upload[u].sid # r /\ prepare[upload[u].sid] = "200"
  BY <1>1, UploadFields DEF TypeOK, Safe, UploadShape
<1>4. decision[r] = {}
  BY <1>1 DEF Asked, DecisionShape
<1>5. CASE ~Up /\ session' = session /\ prepare' = [prepare EXCEPT ![r] = "thrown"]
  BY <1>0, <1>1, <1>5, ClosedKeeps DEF TypeOK
<1>6. CASE session' = Accepted(NewSession(r), FilesOf[r], r) /\ prepare' = [prepare EXCEPT ![r] = "200"]
  <2> DEFINE s == Accepted(NewSession(r), FilesOf[r], r)
  <2>1. /\ s \in Session /\ s.id = r /\ s.status = "sending" /\ s.tokens = FilesOf[r]
        /\ s.open = FALSE /\ s.by = r
        /\ \A f \in File : s.files[f] = IF f \in FilesOf[r] THEN "queue" ELSE "absent"
    BY QuickFields
  <2>2. session' = s
    BY <1>6
  <2> HIDE DEF s
  <2>3. s # NoSession
    BY <2>1, SessionFields
  <2>4. SessionShape'
    BY <1>0, <1>6, <2>1, <2>2, <2>3 DEF SessionShape
  <2>5. TokenShape' /\ UploadShape'
    BY <1>0, <1>1, <1>2, <1>3, <1>6, <2>1, <2>2, <2>3 DEF Safe, TokenShape, UploadShape
  <2>6. SendingHasUpload' /\ FinishedWasSaved'
    BY <2>1, <2>2, <2>3 DEF SendingHasUpload, FinishedWasSaved
  <2>7. ActiveSessionHasWork'
    BY <1>2, <2>1, <2>2 DEF ActiveSessionHasWork
  <2>8. AnsweredOkIsStored'
    BY <1>1 DEF Safe, AnsweredOkIsStored
  <2>9. QED BY <2>4, <2>5, <2>6, <2>7, <2>8 DEF Safe
<1>7. CASE session' = NewSession(r) /\ prepare' = [prepare EXCEPT ![r] = "stored"]
  <2> DEFINE n == NewSession(r)
  <2>1. /\ n \in Session /\ n.id = r /\ n.status = "waiting" /\ n.tokens = {} /\ n.open = TRUE
        /\ n.files = [f \in File |-> IF f \in FilesOf[r] THEN "queue" ELSE "absent"]
    BY NewSessionFields
  <2>2. session' = n
    BY <1>7
  <2> HIDE DEF n
  <2>3. n # NoSession
    BY <2>1, SessionFields
  <2>4. SessionShape'
    BY <1>0, <1>1, <1>4, <1>7, <2>1, <2>2, <2>3 DEF SessionShape
  <2>5. TokenShape' /\ UploadShape'
    BY <1>0, <1>1, <1>3, <1>7, <2>1, <2>2 DEF Safe, TokenShape, UploadShape
  <2>6. SendingHasUpload' /\ FinishedWasSaved' /\ ActiveSessionHasWork'
    BY <2>1, <2>2 DEF SendingHasUpload, FinishedWasSaved, ActiveSessionHasWork, Receiving,
                      allowedStates
  <2>7. AnsweredOkIsStored'
    BY <1>1 DEF Safe, AnsweredOkIsStored
  <2>8. QED BY <2>4, <2>5, <2>6, <2>7 DEF Safe
<1>8. QED
  BY <1>5, <1>6, <1>7 DEF OpenSession

\* A handler comes to its page, or dies on the way.
LEMMA PushSafe ==
  ASSUME TypeOK, Safe, Asked, NEW r \in Request, NEW page,
         prepare[r] \in {"stored", "noting"}, PushPage(r, page) \/ PrepareThrows(r),
         upload' = upload, saved' = saved
  PROVE  Safe'
<1>0. prepare \in [Request -> PrepareState] /\ decision \in [Request -> SUBSET UserDecision]
  BY DEF TypeOK
<1>1. session # NoSession => session.id \in Request
  BY SessionType, SessionFields
<1>2. ASSUME session' = session, decision' = decision,
             NEW how \in {"waiting", "thrown"}, Answer(r, how)
      PROVE  Safe'
  <2>1. \A q \in Request : prepare'[q] = IF q = r THEN how ELSE prepare[q]
    BY <1>0, <1>2 DEF Answer
  <2>2. QED
    BY <1>1, <1>2, <2>1, SameKeeps DEF Safe, SessionShape
<1>3. ASSUME NEW d \in decision[r], Concluded(r, d)
      PROVE  Safe'
  <2>1. d \in UserDecision
    BY <1>0
  <2>2. session # NoSession => d.page # session.id
    BY DEF Asked, DecisionShape
  <2>3. session # NoSession /\ session.id # r => d.files \cap FilesOf[session.id] = {}
    BY DEF Asked, DecisionShape
  <2>4. QED BY <1>3, <2>1, <2>2, <2>3, ConcludedSafe
<1>4. QED
  BY <1>2, <1>3 DEF PushPage, PrepareThrows

LEMMA PrepareSafe ==
  ASSUME TypeOK, Safe, Asked, NEW r \in Request, Prepare(r)
  PROVE  Safe'
<1> USE DEF userVars
<1>0. prepare \in [Request -> PrepareState]
  BY DEF TypeOK
<1>1. ASSUME session' = session, upload' = upload, saved' = saved, decision' = decision,
             prepare[r] \in {"idle", "checked", "stored"}, NEW how \in PrepareState, Answer(r, how),
             prepare[r] = "stored" => how = "noting"
      PROVE  Safe'
  <2>1. \A q \in Request : prepare'[q] = IF q = r THEN how ELSE prepare[q]
    BY <1>0, <1>1 DEF Answer
  <2>2. session # NoSession => session.id \in Request
    BY SessionType, SessionFields
  <2>3. QED
    BY <1>1, <2>1, <2>2, SameKeeps DEF Safe, SessionShape
<1>2. CASE PrepareReceived(r) \/ PrepareMalformed(r)
  BY <1>1, <1>2 DEF PrepareReceived, PrepareMalformed, PrepareState
<1>3. ASSUME NEW quick \in QuickSave, OpenSession(r, quick)
      PROVE  Safe'
  BY <1>3, OpenSessionSafe
<1>4. CASE WindowShown(r)
  BY <1>1, <1>4, PushSafe DEF WindowShown, PrepareState
<1>5. CASE MessageNoted(r)
  BY <1>5, PushSafe DEF MessageNoted
<1>6. QED BY <1>2, <1>3, <1>4, <1>5 DEF Prepare

\* A decision on page p.
LEMMA DecideSafe ==
  ASSUME TypeOK, Safe, NEW d \in UserDecision, Decide(d), upload' = upload, saved' = saved,
         session # NoSession /\ d.files # {} /\ d.page = session.id
           => d.files \cap FilesOf[session.id] # {}
  PROVE  Safe'
<1>1. CASE session # NoSession /\ prepare[session.id] = "waiting" /\ Concluded(session.id, d)
  BY <1>1, SessionType, SessionFields, ConcludedSafe
<1>2. CASE /\ session # NoSession /\ session' = [session EXCEPT !.open = FALSE]
           /\ prepare' = prepare
  <2>1. session \in Session
    BY <1>2, SessionType
  <2>2. /\ session' \in Session /\ session'.id = session.id /\ session'.status = session.status
        /\ session'.tokens = session.tokens /\ session'.open = FALSE
        /\ session'.by = session.by /\ session'.files = session.files
    BY <1>2, <2>1, OpenFields
  <2>3. session' # NoSession
    BY <2>2, SessionFields
  <2>4. SessionShape' /\ TokenShape' /\ UploadShape'
    BY <1>2, <2>2, <2>3 DEF Safe, SessionShape, TokenShape, UploadShape
  <2>5. SendingHasUpload' /\ FinishedWasSaved' /\ ActiveSessionHasWork' /\ AnsweredOkIsStored'
    BY <1>2, <2>2, <2>3 DEF Safe, SendingHasUpload, FinishedWasSaved, ActiveSessionHasWork,
                            AnsweredOkIsStored, Receiving
  <2>6. QED BY <2>4, <2>5 DEF Safe
<1>3. CASE UNCHANGED <<session, decision, prepare>>
  BY <1>3, IdleKeeps
<1>4. QED BY <1>1, <1>2, <1>3 DEF Decide

LEMMA PageSafe ==
  ASSUME TypeOK, Safe, Asked, NEW p \in Request, Page(p)
  PROVE  Safe'
<1> USE DEF handlerVars
<1>1. CASE FirstFrame(p) \/ TurnsBlank(p)
  BY <1>1, IdleKeeps DEF FirstFrame, TurnsBlank
<1>2. ASSUME NEW files \in SUBSET File, AcceptFiles(p, files)
      PROVE  Safe'
  <2> DEFINE d == [accept |-> TRUE, files |-> files, page |-> p]
  <2>1. d \in UserDecision /\ d.files = files /\ d.page = p
    BY DEF UserDecision
  <2>2. Decide(d)
    BY <1>2 DEF AcceptFiles
  <2> HIDE DEF d
  <2>3. ASSUME session.id = p, NEW f \in files
        PROVE  f \in FilesOf[p]
    <3>1. session # NoSession /\ pages[p] = "files"
          /\ files \subseteq selected \cup {g \in File : HasFile(session, g)}
      BY <1>2 DEF AcceptFiles
    <3>2. selected \subseteq FilesOf[p]
      BY <2>3, <3>1 DEF Asked, PageShape
    <3>3. HasFile(session, f) => f \in FilesOf[p]
      BY <2>3, <3>1 DEF HasFile, Safe, SessionShape
    <3>4. QED BY <3>1, <3>2, <3>3
  <2>4. QED
    BY <1>2, <2>1, <2>2, <2>3, DecideSafe DEF AcceptFiles
<1>3. CASE AcceptMessage(p)
  <2> DEFINE d == [accept |-> TRUE, files |-> {}, page |-> p]
  <2>1. d \in UserDecision /\ d.files = {}
    BY DEF UserDecision
  <2>2. Decide(d)
    BY <1>3 DEF AcceptMessage
  <2> HIDE DEF d
  <2>3. QED BY <1>3, <2>1, <2>2, DecideSafe DEF AcceptMessage
<1>4. CASE Decline(p)
  <2> DEFINE d == [accept |-> FALSE, files |-> {}, page |-> p]
  <2>1. d \in UserDecision /\ d.files = {}
    BY DEF UserDecision
  <2>2. Decide(d) \/ UNCHANGED <<session, decision, prepare>>
    BY <1>4 DEF Decline
  <2> HIDE DEF d
  <2>3. QED BY <1>4, <2>1, <2>2, DecideSafe, IdleKeeps DEF Decline
<1>5. CASE ClosePage(p)
  BY <1>5, ClosedKeeps DEF ClosePage, closeSession
<1>6. QED BY <1>1, <1>2, <1>3, <1>4, <1>5 DEF Page

LEMMA UploadBeginSafe ==
  ASSUME TypeOK, Safe, NEW u \in Upload, NEW ip \in Ip, NEW r \in Request, NEW f \in File,
         UploadBegin(u, ip, r, f)
  PROVE  Safe'
<1> USE DEF userVars
<1>0. upload \in [Upload -> UploadState]
  BY DEF TypeOK
<1>1. /\ session # NoSession /\ session.id = r /\ f \in session.tokens /\ upload[u].at = "idle"
      /\ Receiving(session) /\ UNCHANGED <<prepare, decision, saved>>
      /\ upload' = [upload EXCEPT ![u] = [at |-> "saving", sid |-> r, file |-> f]]
  BY DEF UploadBegin, UploadVerdict
<1>2. session \in Session
  BY <1>1, SessionType
<1>3. /\ session' \in Session /\ session'.id = r /\ session'.status = "sending"
      /\ session'.tokens = session.tokens /\ session'.open = session.open
      /\ session'.by = session.by
      /\ session'.files = [session.files EXCEPT ![f] = "sending"]
  BY <1>1, <1>2, BeginFields DEF UploadBegin
<1>4. session' # NoSession
  BY <1>3, SessionFields
<1>5. /\ upload'[u].at = "saving" /\ upload'[u].sid = r /\ upload'[u].file = f
      /\ \A v \in Upload \ {u} : upload'[v] = upload[v]
  BY <1>0, <1>1
<1>6. /\ session.files \in [File -> FileStatus \cup {"absent"}] /\ session.open = FALSE
      /\ prepare[r] = "200" /\ f \in FilesOf[r]
  BY <1>1, <1>2, SessionFields DEF Safe, SessionShape
<1>7. session.files[f] \notin {"absent", "skipped"}
  BY <1>1, <1>6 DEF Safe, SessionShape, TokenShape
<1>8. SessionShape'
  BY <1>1, <1>3, <1>4, <1>6, <1>7 DEF Safe, SessionShape
<1>9. TokenShape'
  <2>1. \A u2 \in Upload : upload'[u2].at # "idle" /\ upload'[u2].sid = r
                            => upload'[u2].file \in session.tokens
    BY <1>1, <1>5 DEF Safe, TokenShape
  <2>2. \A g \in session.tokens : session'.files[g] # "skipped"
    BY <1>1, <1>2, <1>3, <1>6, SessionFields DEF Safe, TokenShape
  <2>3. QED BY <1>3, <2>1, <2>2 DEF TokenShape
<1>10. UploadShape' /\ AnsweredOkIsStored'
  BY <1>1, <1>5, <1>6 DEF Safe, UploadShape, AnsweredOkIsStored
<1>11. SendingHasUpload'
  <2> SUFFICES ASSUME NEW g \in File, session'.files[g] = "sending"
               PROVE  \E v \in Upload : /\ upload'[v].at = "saving"
                                        /\ upload'[v].sid = r /\ upload'[v].file = g
    BY <1>3 DEF SendingHasUpload
  <2>1. CASE g = f
    BY <1>5, <2>1
  <2>2. CASE g # f
    <3>1. session.files[g] = "sending"
      BY <1>3, <1>6, <2>2
    <3>2. PICK v \in Upload : /\ upload[v].at = "saving"
                              /\ upload[v].sid = r /\ upload[v].file = g
      BY <1>1, <3>1 DEF Safe, SendingHasUpload
    <3>3. v # u
      BY <1>1, <3>2
    <3>4. QED BY <1>5, <3>2, <3>3
  <2>3. QED BY <2>1, <2>2
<1>12. FinishedWasSaved'
  BY <1>1, <1>3, <1>4, <1>6 DEF Safe, FinishedWasSaved
<1>13. ActiveSessionHasWork'
  BY <1>3, <1>5 DEF ActiveSessionHasWork
<1>14. QED
  BY <1>8, <1>9, <1>10, <1>11, <1>12, <1>13 DEF Safe

\* The catch block ends the handler in one of the ways above.
LEMMA CatchSafe ==
  ASSUME TypeOK, Safe, NEW u \in Upload, upload[u].at \in {"saving", "history"}, Catch(u),
         prepare' = prepare, decision' = decision, saved \subseteq saved'
  PROVE  Safe'
<1> DEFINE f == upload[u].file
<1>1. upload \in [Upload -> UploadState] /\ upload[u] \in UploadState
  BY DEF TypeOK
<1>2. f \in File /\ upload[u].sid \in Request
  BY <1>1, UploadFields
<1>3. CASE ~Up /\ Throw(u)
  BY <1>3, QuitKeeps DEF Throw, Receiving, TypeOK
<1>4. CASE session = NoSession /\ Respond(u, NoSession)
  BY <1>4, RespondKeeps
<1>5. CASE HasFile(session, f) /\ Respond(u, fileFinished(session, f, "failed"))
  BY <1>5, RespondKeeps
<1>6. CASE session # NoSession /\ ~HasFile(session, f) /\ Throw(u)
  <2>1. session \in Session
    BY <1>6, SessionType
  <2>2. f \in FilesOf[upload[u].sid]
    BY DEF Safe, UploadShape
  <2>3. session.files[f] = "absent"
    BY <1>6 DEF HasFile
  <2>4. session.id # upload[u].sid
    BY <1>2, <1>6, <2>2, <2>3 DEF Safe, SessionShape
  <2>5. QED BY <1>6, <2>4, QuitKeeps DEF Throw
<1>7. QED
  BY <1>3, <1>4, <1>5, <1>6 DEF Catch

LEMMA UploadSavedSafe ==
  ASSUME TypeOK, Safe, NEW u \in Upload, UploadSaved(u)
  PROVE  Safe'
<1> DEFINE f == upload[u].file
<1>1. /\ upload[u].at = "saving" /\ prepare' = prepare /\ decision' = decision
      /\ saved \subseteq saved' /\ <<upload[u].sid, f>> \in saved'
  BY DEF UploadSaved, userVars
<1>2. CASE Catch(u)
  BY <1>1, <1>2, CatchSafe
<1>3. CASE ~Receiving(session) /\ upload' = Moved(u, "500") /\ session' = session
  BY <1>1, <1>3, QuitKeeps
<1>4. CASE /\ Receiving(session) /\ HasFile(session, f)
           /\ session' = fileFinished(session, f, "finished")
           /\ upload' = Moved(u, "history")
  <2>1. upload \in [Upload -> UploadState] /\ upload[u] \in UploadState
    BY DEF TypeOK
  <2>2. f \in File /\ upload[u].sid \in Request
    BY <1>1, <2>1, UploadFields
  <2>3. /\ session \in Session /\ session.id = upload[u].sid
        /\ session.files[f] # "absent"
    BY <1>1, <1>4, SameSession
  <2>4. /\ session' \in Session /\ session'.id = session.id /\ session'.status = session.status
        /\ session'.tokens = session.tokens /\ session'.open = session.open
        /\ session'.by = session.by
        /\ session'.files = [session.files EXCEPT ![f] = "finished"]
    BY <1>4, <2>2, <2>3, FileFinishedFields DEF FileStatus
  <2>5. session.files \in [File -> FileStatus \cup {"absent"}] /\ session.tokens \subseteq File
    BY <2>3, SessionFields
  <2>6. session # NoSession /\ session' # NoSession
    BY <2>3, <2>4, SessionFields
  <2>7. /\ upload'[u].at = "history"
        /\ upload'[u].sid = upload[u].sid /\ upload'[u].file = f
        /\ \A v \in Upload \ {u} : upload'[v] = upload[v]
    BY <1>1, <1>4, <2>1, MovedFields DEF TypeOK
  <2>8. \A g \in File : session'.files[g] = IF g = f THEN "finished" ELSE session.files[g]
    BY <2>2, <2>4, <2>5
  <2>9. SessionShape'
    BY <1>1, <2>3, <2>4, <2>6, <2>8 DEF Safe, SessionShape
  <2>10. TokenShape'
    BY <1>1, <2>4, <2>5, <2>6, <2>7, <2>8 DEF Safe, TokenShape
  <2>11. UploadShape' /\ AnsweredOkIsStored'
    BY <1>1, <2>7 DEF Safe, UploadShape, AnsweredOkIsStored
  <2>12. SendingHasUpload'
    <3> SUFFICES ASSUME NEW g \in File, session'.files[g] = "sending"
                 PROVE  \E v \in Upload : /\ upload'[v].at = "saving"
                                          /\ upload'[v].sid = session.id /\ upload'[v].file = g
      BY <2>4 DEF SendingHasUpload
    <3>1. g # f /\ session.files[g] = "sending"
      BY <2>8
    <3>2. PICK v \in Upload : /\ upload[v].at = "saving"
                              /\ upload[v].sid = session.id /\ upload[v].file = g
      BY <1>4, <3>1 DEF Safe, SendingHasUpload
    <3>3. v # u
      BY <3>1, <3>2
    <3>4. QED BY <2>7, <3>2, <3>3
  <2>13. FinishedWasSaved'
    BY <1>1, <2>3, <2>4, <2>6, <2>8 DEF Safe, FinishedWasSaved
  <2>14. ActiveSessionHasWork'
    BY <2>3, <2>4, <2>7 DEF ActiveSessionHasWork
  <2>15. QED
    BY <2>9, <2>10, <2>11, <2>12, <2>13, <2>14 DEF Safe
<1>5. QED
  BY <1>2, <1>3, <1>4 DEF UploadSaved

LEMMA UploadStepSafe ==
  ASSUME TypeOK, Safe, NEW u \in Upload, UploadStep(u)
  PROVE  Safe'
<1> USE DEF handlerVars, userVars
<1>2. CASE UploadSaved(u)
  BY <1>2, UploadSavedSafe
<1>3. CASE UploadFailed(u)
  BY <1>3, CatchSafe DEF UploadFailed
<1>4. CASE HistoryFails(u)
  BY <1>4, CatchSafe DEF HistoryFails
<1>5. CASE HistoryAdded(u)
  <2>1. upload[u].at = "history" /\ UNCHANGED <<prepare, decision, saved>>
    BY <1>5 DEF HistoryAdded
  <2>2. CASE Respond(u, session)
    BY <2>1, <2>2, RespondKeeps
  <2>3. CASE ~Up /\ Throw(u)
    BY <2>1, <2>3, QuitKeeps DEF Throw, Receiving, TypeOK
  <2>4. QED BY <1>5, <2>2, <2>3 DEF HistoryAdded
<1>6. CASE DelayedClose(u)
  BY <1>6, ClosedKeeps, IdleKeeps DEF DelayedClose, closeSession
<1>7. QED
  BY <1>2, <1>3, <1>4, <1>5, <1>6 DEF UploadStep

LEMMA CancelSafe ==
  ASSUME TypeOK, Safe, NEW ip \in Ip, NEW r \in Request, CancelReceived(ip, r)
  PROVE  Safe'
<1> USE DEF handlerVars, userVars
<1>1. session \in Session
  BY SessionType DEF CancelReceived, CancelVerdict
<1>2. /\ session' \in Session /\ session'.id = session.id
      /\ session'.status = "canceledBySender"
      /\ session'.tokens = session.tokens /\ session'.open = session.open
      /\ session'.by = session.by /\ session'.files = session.files
  BY <1>1, StatusFields DEF CancelReceived, SessionStatus
<1>3. session # NoSession /\ session' # NoSession
  BY <1>1, <1>2, SessionFields
<1>4. UNCHANGED <<upload, prepare, decision, saved>>
  BY DEF CancelReceived
<1>5. SessionShape' /\ TokenShape'
  BY <1>2, <1>3, <1>4 DEF Safe, SessionShape, TokenShape
<1>6. UploadShape' /\ AnsweredOkIsStored'
  BY <1>4 DEF Safe, UploadShape, AnsweredOkIsStored
<1>7. SendingHasUpload' /\ FinishedWasSaved' /\ ActiveSessionHasWork'
  BY <1>2, <1>3, <1>4 DEF Safe, SendingHasUpload, FinishedWasSaved, ActiveSessionHasWork,
                          Receiving, allowedStates
<1>8. QED BY <1>5, <1>6, <1>7 DEF Safe

-----------------------------------------------------------------------------
\* Decisions and pages.

\* What a step may do to them: a session that begins is looked at below; a
\* decision that is new is made on the page of another request than the
\* session's; a page that is new is the one of a handler that has come to it;
\* and only files of the session at hand come to the selection.
LEMMA AskedKeeps ==
  ASSUME TypeOK, Safe, Asked,
         session' = NoSession \/ (session # NoSession /\ session'.id = session.id),
         \A r \in Request : prepare'[r] \in {"idle", "checked"} => prepare[r] \in {"idle", "checked"},
         \A q \in Request : \A d \in decision'[q] :
           /\ prepare'[q] \in {"stored", "noting", "thrown"}
           /\ \/ d \in decision[q]
              \/ /\ session # NoSession /\ q = session.id /\ d.page # q
                 /\ d.page \in Request /\ prepare[d.page] \notin {"idle", "checked"}
                 /\ d.files \subseteq selected \cup {f \in File : HasFile(session, f)},
         decision' \in [Request -> SUBSET UserDecision],
         \A p \in Request : pages'[p] # "none" =>
           /\ \/ pages[p] # "none" /\ prepare'[p] = prepare[p]
              \/ /\ prepare'[p] \notin {"idle", "checked", "stored", "noting"}
                 /\ prepare'[p] = "thrown" => session' = NoSession
           /\ session' # NoSession /\ session'.id = p /\ pages'[p] = "files"
                => pages[p] = "files" \/ selected' = {f \in File : HasFile(session, f)},
         selected' \subseteq selected \cup {f \in File : HasFile(session, f)}
  PROVE  Asked'
<1>1. session # NoSession =>
        /\ session.id \in Request /\ prepare[session.id] \notin {"idle", "checked"}
        /\ \A f \in File : HasFile(session, f) => f \in FilesOf[session.id]
  BY SessionType, SessionFields DEF Safe, SessionShape, HasFile
<1>2. \A d \in UserDecision : d.page \in Request
  BY DEF UserDecision
<1>3. ASSUME NEW r \in Request, prepare[r] \in {"idle", "checked"}, NEW fs,
             fs \subseteq selected \cup {f \in File : HasFile(session, f)}
      PROVE  fs \cap FilesOf[r] = {}
  <2>1. selected \cap FilesOf[r] = {}
    BY <1>3 DEF Asked, PageShape
  <2>2. ASSUME NEW f \in File, HasFile(session, f)
        PROVE  f \notin FilesOf[r]
    <3>1. session # NoSession
      BY <2>2 DEF HasFile
    <3>2. session.id \in Request /\ session.id # r /\ f \in FilesOf[session.id]
      BY <1>1, <1>3, <2>2, <3>1
    <3>3. QED BY <3>2, ReceiveAssumption
  <2>3. QED BY <1>3, <2>1, <2>2
<1>4. DecisionShape'
  <2> SUFFICES ASSUME NEW q \in Request, NEW d \in decision'[q]
               PROVE  /\ prepare'[q] \in {"stored", "noting", "thrown"}
                      /\ prepare'[d.page] \notin {"idle", "checked"}
                      /\ session' # NoSession => d.page # session'.id
                      /\ session' # NoSession /\ session'.id # q
                           => d.files \cap FilesOf[session'.id] = {}
                      /\ \A r \in Request : prepare'[r] \in {"idle", "checked"}
                                              => d.files \cap FilesOf[r] = {}
    BY DEF DecisionShape
  <2>1. CASE d \in decision[q]
    <3>1. d.page \in Request
      BY <1>2, <2>1 DEF TypeOK
    <3>2. QED BY <2>1, <3>1 DEF Asked, DecisionShape
  <2>2. CASE /\ session # NoSession /\ q = session.id /\ d.page # q
             /\ d.page \in Request /\ prepare[d.page] \notin {"idle", "checked"}
             /\ d.files \subseteq selected \cup {f \in File : HasFile(session, f)}
    BY <1>3, <2>2
  <2>3. QED BY <2>1, <2>2
<1>5. PageShape'
  <2>1. ASSUME NEW r \in Request, prepare'[r] \in {"idle", "checked"}
        PROVE  selected' \cap FilesOf[r] = {}
    BY <1>3, <2>1
  <2>2. ASSUME NEW p \in Request, pages'[p] # "none"
        PROVE  /\ prepare'[p] \notin {"idle", "checked", "stored", "noting"}
               /\ session' # NoSession /\ session'.id = p => prepare'[p] # "thrown"
    BY <2>2 DEF Asked, PageShape
  <2>3. ASSUME NEW p \in Request, session' # NoSession, session'.id = p, pages'[p] = "files"
        PROVE  selected' \subseteq FilesOf[p]
    <3>1. session # NoSession /\ session.id = p
      BY <2>3
    <3>2. \A f \in File : HasFile(session, f) => f \in FilesOf[p]
      BY <1>1, <3>1
    <3>3. CASE pages[p] = "files"
      <4>1. selected \subseteq FilesOf[p]
        BY <3>1, <3>3 DEF Asked, PageShape
      <4>2. QED BY <3>2, <4>1
    <3>4. QED BY <2>3, <3>2, <3>3
  <2>4. QED BY <2>1, <2>2, <2>3 DEF PageShape
<1>6. QED BY <1>4, <1>5 DEF Asked

\* The same for a step that leaves handlers, decisions and selection alone.
LEMMA AskedIdle ==
  ASSUME TypeOK, Safe, Asked,
         session' = NoSession \/ (session # NoSession /\ session'.id = session.id),
         UNCHANGED <<prepare, decision, selected>>, pages' \in {pages, NoPages}
  PROVE  Asked'
<1>1. \A p \in Request : pages'[p] # "none" => pages'[p] = pages[p]
  BY DEF NoPages
<1>2. \A q \in Request : \A d \in decision[q] : prepare[q] \in {"stored", "noting", "thrown"}
  BY DEF Asked, DecisionShape
<1>3. decision' \in [Request -> SUBSET UserDecision]
  BY DEF TypeOK
<1>4. QED BY <1>1, <1>2, <1>3, AskedKeeps

\* A decision changes the session, if there is one, or ends it.
LEMMA ConcludedSession ==
  ASSUME TypeOK, NEW r \in Request, NEW d \in UserDecision, Concluded(r, d)
  PROVE  /\ session' = NoSession \/ (session # NoSession /\ session'.id = session.id)
         /\ \E code \in {"thrown", "500", "204", "403", "200"} :
              Answer(r, code) /\ (code = "thrown" => session' = NoSession)
<1>1. CASE session # NoSession /\ session' = Accepted(session, d.files, d.page)
           /\ Answer(r, "200")
  <2>1. PICK fs \in SUBSET File, page \in Request : fs = d.files /\ page = d.page
    BY DEF UserDecision
  <2>2. session' = Accepted(session, fs, page) /\ session \in Session
    BY <1>1, <2>1, SessionType
  <2>3. session'.id = session.id
    BY <2>2, AcceptedFields
  <2>4. QED BY <1>1, <2>3
<1>2. CASE session' = NoSession /\ \E code \in {"204", "403"} : Answer(r, code)
  BY <1>2
<1>3. CASE session' = NoSession /\ \E code \in {"thrown", "500"} : Answer(r, code)
  BY <1>3
<1>4. QED
  BY <1>1, <1>2, <1>3 DEF Concluded, closeSession, TypeOK

LEMMA OpenSessionAsked ==
  ASSUME TypeOK, Safe, Asked, NEW r \in Request, NEW quick \in QuickSave, OpenSession(r, quick)
  PROVE  Asked'
<1> USE DEF userVars
<1>1. prepare[r] = "checked" /\ UNCHANGED <<decision, pages, selected>>
  BY DEF OpenSession
<1>2. PICK how \in {"200", "stored", "thrown"} : Answer(r, how)
  BY DEF OpenSession
<1>3. \A q \in Request : prepare'[q] = IF q = r THEN how ELSE prepare[q]
  BY <1>2 DEF Answer, TypeOK
<1>4. session' = NoSession \/ session'.id = r
  <2>1. NewSession(r).id = r /\ Accepted(NewSession(r), FilesOf[r], r).id = r
    BY NewSessionFields, QuickFields
  <2>2. QED BY <2>1 DEF OpenSession, TypeOK
<1>5. how = "thrown" => session' = NoSession
  BY <1>1, <1>2, <1>3 DEF OpenSession, Answer, TypeOK
<1>6. decision[r] = {} /\ pages[r] = "none"
  BY <1>1 DEF Asked, DecisionShape, PageShape, TypeOK
<1>7. \A q \in Request : \A d \in decision[q] : d.page \in Request
  BY DEF TypeOK, UserDecision
<1>8. DecisionShape'
  BY <1>1, <1>3, <1>4, <1>6, <1>7 DEF Asked, DecisionShape
<1>9. PageShape'
  BY <1>1, <1>3, <1>4, <1>6 DEF Asked, PageShape
<1>10. QED BY <1>8, <1>9 DEF Asked

\* A handler comes to its page, or dies on the way.
LEMMA PushAsked ==
  ASSUME TypeOK, Safe, Asked, NEW r \in Request, NEW page \in {"blank", "unseen"},
         prepare[r] \in {"stored", "noting"}, PushPage(r, page) \/ PrepareThrows(r),
         selected' = selected, decision' \in [Request -> SUBSET UserDecision]
  PROVE  Asked'
<1>0. prepare \in [Request -> PrepareState] /\ decision \in [Request -> SUBSET UserDecision]
  BY DEF TypeOK
<1>1. PICK how \in PrepareState :
        /\ Answer(r, how)
        /\ session' = NoSession \/ (session # NoSession /\ session'.id = session.id)
        /\ \/ how = "thrown" /\ UNCHANGED <<decision, pages>>
           \/ /\ how \notin {"idle", "checked", "stored", "noting"}
              /\ how = "thrown" => session' = NoSession
              /\ pages' = [pages EXCEPT ![r] = page]
              /\ decision' = [decision EXCEPT ![r] = {}]
  <2>1. ASSUME NEW d \in decision[r], Concluded(r, d)
        PROVE  /\ session' = NoSession \/ (session # NoSession /\ session'.id = session.id)
               /\ \E code \in {"thrown", "500", "204", "403", "200"} :
                    Answer(r, code) /\ (code = "thrown" => session' = NoSession)
    BY <1>0, <2>1, ConcludedSession
  <2>2. decision[r] = {} => decision = [decision EXCEPT ![r] = {}]
    BY <1>0
  <2>3. CASE PrepareThrows(r)
    BY <2>3 DEF PrepareThrows, PrepareState
  <2>4. CASE /\ pages' = [pages EXCEPT ![r] = page]
             /\ Answer(r, "waiting") /\ decision[r] = {} /\ UNCHANGED <<decision, session>>
    BY <2>2, <2>4 DEF PrepareState
  <2>5. CASE /\ pages' = [pages EXCEPT ![r] = page]
             /\ decision' = [decision EXCEPT ![r] = {}]
             /\ \E d \in decision[r] : Concluded(r, d)
    BY <2>1, <2>5 DEF PrepareState
  <2>6. QED BY <2>3, <2>4, <2>5 DEF PushPage
<1>2. \A q \in Request : prepare'[q] = IF q = r THEN how ELSE prepare[q]
  BY <1>0, <1>1 DEF Answer
<1>3. \A q \in Request : \A d \in decision[q] : prepare[q] \in {"stored", "noting", "thrown"}
  BY DEF Asked, DecisionShape
<1>4. \A q \in Request : \A d \in decision'[q] :
        prepare'[q] \in {"stored", "noting", "thrown"} /\ d \in decision[q]
  BY <1>0, <1>1, <1>2, <1>3
<1>5. \A p \in Request : pages[p] # "none" => p # r
  BY DEF Asked, PageShape
<1>6. \A p \in Request : p # r => pages'[p] = pages[p]
  BY <1>1 DEF TypeOK
<1>7. \A p \in Request : pages'[p] # "none" =>
        /\ \/ pages[p] # "none" /\ prepare'[p] = prepare[p]
           \/ /\ prepare'[p] \notin {"idle", "checked", "stored", "noting"}
              /\ prepare'[p] = "thrown" => session' = NoSession
        /\ pages'[p] = "files" => pages[p] = "files"
  <2>1. pages'[r] # "none" => /\ how \notin {"idle", "checked", "stored", "noting"}
                              /\ how = "thrown" => session' = NoSession
                              /\ pages'[r] # "files"
    BY <1>1, <1>5 DEF TypeOK
  <2>2. QED BY <1>2, <1>6, <2>1
<1>8. QED BY <1>1, <1>2, <1>4, <1>7, AskedKeeps

LEMMA PrepareAsked ==
  ASSUME TypeOK, Safe, Asked, NEW r \in Request, Prepare(r), TypeOK'
  PROVE  Asked'
<1> USE DEF userVars
<1>0. prepare \in [Request -> PrepareState] /\ decision' \in [Request -> SUBSET UserDecision]
  BY DEF TypeOK
<1>1. ASSUME UNCHANGED <<session, decision, pages, selected>>, NEW how \in PrepareState,
             Answer(r, how), prepare[r] \in {"idle", "checked"} \/ how = "noting",
             prepare[r] \in {"idle", "checked", "stored"}
      PROVE  Asked'
  <2>1. \A q \in Request : prepare'[q] = IF q = r THEN how ELSE prepare[q]
    BY <1>0, <1>1 DEF Answer
  <2>2. \A p \in Request : pages[p] # "none" => p # r
    BY <1>1 DEF Asked, PageShape
  <2>3. \A q \in Request : \A d \in decision[q] : prepare'[q] \in {"stored", "noting", "thrown"}
    BY <1>1, <2>1 DEF Asked, DecisionShape
  <2>4. QED BY <1>0, <1>1, <2>1, <2>2, <2>3, AskedKeeps
<1>2. CASE PrepareReceived(r) \/ PrepareMalformed(r)
  BY <1>1, <1>2 DEF PrepareReceived, PrepareMalformed, PrepareState
<1>3. ASSUME NEW quick \in QuickSave, OpenSession(r, quick)
      PROVE  Asked'
  BY <1>3, OpenSessionAsked
<1>4. CASE WindowShown(r)
  BY <1>0, <1>1, <1>4, PushAsked DEF WindowShown, PrepareState
<1>5. CASE MessageNoted(r)
  BY <1>0, <1>5, PushAsked DEF MessageNoted
<1>6. QED BY <1>2, <1>3, <1>4, <1>5 DEF Prepare

\* A decision on page p, which is left.
LEMMA DecideAsked ==
  ASSUME TypeOK, Safe, Asked, NEW p \in Request, NEW d \in UserDecision, d.page = p,
         pages[p] # "none", PageClosed(p), Decide(d), TypeOK',
         d.files \subseteq selected \cup {f \in File : HasFile(session, f)},
         selected' \in {selected, d.files}
  PROVE  Asked'
<1>0. prepare \in [Request -> PrepareState] /\ decision \in [Request -> SUBSET UserDecision]
      /\ decision' \in [Request -> SUBSET UserDecision]
  BY DEF TypeOK
<1>1. \A q \in Request : pages'[q] # "none" => pages'[q] = pages[q]
  BY DEF PageClosed, TypeOK
<1>2. \A q \in Request : \A e \in decision[q] : prepare[q] \in {"stored", "noting", "thrown"}
  BY DEF Asked, DecisionShape
<1>3. session # NoSession => session.id \in Request /\ session \in Session
  BY SessionType, SessionFields
<1>4. CASE /\ session # NoSession /\ prepare[session.id] = "waiting"
           /\ Concluded(session.id, d) /\ decision' = decision
  <2>1. PICK r \in Request : r = session.id
    BY <1>3, <1>4
  <2>2. session' = NoSession \/ (session # NoSession /\ session'.id = session.id)
    BY <1>4, <2>1, ConcludedSession
  <2>3. PICK code \in {"thrown", "500", "204", "403", "200"} :
          Answer(r, code) /\ (code = "thrown" => session' = NoSession)
    BY <1>4, <2>1, ConcludedSession
  <2>4. \A q \in Request : prepare'[q] = IF q = r THEN code ELSE prepare[q]
    BY <1>0, <2>3 DEF Answer
  <2>5. \A q \in Request : \A e \in decision'[q] : prepare'[q] \in {"stored", "noting", "thrown"}
    BY <1>2, <1>4, <2>1, <2>4
  <2>6. QED BY <1>0, <1>1, <1>4, <2>2, <2>3, <2>4, <2>5, AskedKeeps
<1>5. CASE /\ session # NoSession /\ session.open /\ prepare[session.id] # "waiting"
           /\ session' = [session EXCEPT !.open = FALSE]
           /\ decision' = [decision EXCEPT ![session.id] = {d}]
           /\ prepare' = prepare
  <2>1. session'.id = session.id
    BY <1>3, <1>5, OpenFields
  <2>2. prepare[session.id] \in {"stored", "noting", "thrown"}
    BY <1>5 DEF Safe, SessionShape
  <2>3. p # session.id /\ prepare[p] \notin {"idle", "checked"}
    BY <1>5, <2>2 DEF Asked, PageShape
  <2>4. \A q \in Request : \A e \in decision'[q] : e \in decision[q] \/ (q = session.id /\ e = d)
    BY <1>0, <1>3, <1>5
  <2>5. \A q \in Request : \A e \in decision'[q] : prepare'[q] \in {"stored", "noting", "thrown"}
    BY <1>2, <1>5, <2>2, <2>4
  <2>6. QED BY <1>0, <1>1, <1>5, <2>1, <2>3, <2>4, <2>5, AskedKeeps
<1>6. CASE UNCHANGED <<session, decision, prepare>>
  <2>1. session = NoSession \/ session # NoSession
    OBVIOUS
  <2>2. QED BY <1>0, <1>1, <1>2, <1>6, AskedKeeps
<1>7. QED BY <1>4, <1>5, <1>6 DEF Decide

LEMMA PageAsked ==
  ASSUME TypeOK, Safe, Asked, NEW p \in Request, Page(p), TypeOK'
  PROVE  Asked'
<1> USE DEF handlerVars
<1>0. decision' \in [Request -> SUBSET UserDecision] /\ pages \in [Request -> {"none", "blank", "files", "unseen", "message"}]
  BY DEF TypeOK
<1>1. ASSUME UNCHANGED <<session, prepare, decision>>, pages[p] # "none",
             NEW shown, pages' = [pages EXCEPT ![p] = shown],
             \/ shown \in {"none", "blank"} /\ selected' = selected
             \/ shown # "none" /\ selected' = {f \in File : HasFile(session, f)}
      PROVE  Asked'
  <2>1. \A q \in Request : \A d \in decision[q] : prepare[q] \in {"stored", "noting", "thrown"}
    BY DEF Asked, DecisionShape
  <2>2. \A q \in Request : pages'[q] # "none" =>
          /\ pages[q] # "none"
          /\ pages'[q] = "files" => pages[q] = "files" \/ selected' = {f \in File : HasFile(session, f)}
    BY <1>0, <1>1
  <2>3. QED BY <1>0, <1>1, <2>1, <2>2, AskedKeeps
<1>2. CASE FirstFrame(p)
  BY <1>1, <1>2 DEF FirstFrame
<1>3. CASE TurnsBlank(p)
  BY <1>1, <1>3 DEF TurnsBlank
<1>4. ASSUME NEW files \in SUBSET File, AcceptFiles(p, files)
      PROVE  Asked'
  <2> DEFINE d == [accept |-> TRUE, files |-> files, page |-> p]
  <2>1. d \in UserDecision /\ d.files = files /\ d.page = p
    BY DEF UserDecision
  <2>2. Decide(d)
    BY <1>4 DEF AcceptFiles
  <2> HIDE DEF d
  <2>3. QED BY <1>4, <2>1, <2>2, DecideAsked DEF AcceptFiles
<1>5. CASE AcceptMessage(p)
  <2> DEFINE d == [accept |-> TRUE, files |-> {}, page |-> p]
  <2>1. d \in UserDecision /\ d.files = {} /\ d.page = p
    BY DEF UserDecision
  <2>2. Decide(d)
    BY <1>5 DEF AcceptMessage
  <2> HIDE DEF d
  <2>3. QED BY <1>5, <2>1, <2>2, DecideAsked DEF AcceptMessage
<1>6. CASE Decline(p)
  <2> DEFINE d == [accept |-> FALSE, files |-> {}, page |-> p]
  <2>1. d \in UserDecision /\ d.files = {} /\ d.page = p
    BY DEF UserDecision
  <2>2. Decide(d) \/ UNCHANGED <<session, decision, prepare>>
    BY <1>6 DEF Decline
  <2> HIDE DEF d
  <2>3. pages[p] # "none" /\ PageClosed(p) /\ selected' = selected
    BY <1>6 DEF Decline
  <2>4. CASE Decide(d)
    BY <2>1, <2>3, <2>4, DecideAsked
  <2>5. CASE UNCHANGED <<session, decision, prepare>>
    BY <1>1, <2>3, <2>5 DEF PageClosed
  <2>6. QED BY <2>2, <2>4, <2>5
<1>7. CASE ClosePage(p)
  <2>1. session' = NoSession /\ UNCHANGED <<prepare, decision, selected>>
        /\ pages' = [pages EXCEPT ![p] = "none"]
    BY <1>7 DEF ClosePage, PageClosed, closeSession
  <2>2. \A q \in Request : \A d \in decision[q] : prepare[q] \in {"stored", "noting", "thrown"}
    BY DEF Asked, DecisionShape
  <2>3. \A q \in Request : pages'[q] # "none" => pages'[q] = pages[q]
    BY <1>0, <2>1
  <2>4. QED BY <1>0, <2>1, <2>2, <2>3, AskedKeeps
<1>8. QED BY <1>2, <1>3, <1>4, <1>5, <1>6, <1>7 DEF Page

\* An upload changes the session at hand, or finds that it has gone.
LEMMA UploadStepSession ==
  ASSUME TypeOK, NEW u \in Upload, UploadStep(u)
  PROVE  session' = NoSession \/ (session # NoSession /\ session'.id = session.id)
<1> DEFINE f == upload[u].file
<1>1. upload[u] \in UploadState
  BY DEF TypeOK
<1>2. upload[u].at \in {"saving", "history"} => f \in File
  BY <1>1, UploadFields
<1>3. ASSUME upload[u].at \in {"saving", "history"}, NEW s \in Session \cup {NoSession},
             Respond(u, s), s # NoSession => session # NoSession /\ s.id = session.id
      PROVE  session' = NoSession \/ (session # NoSession /\ session'.id = session.id)
  BY <1>3, RespondFacts
<1>4. ASSUME upload[u].at \in {"saving", "history"}, Catch(u)
      PROVE  session' = NoSession \/ (session # NoSession /\ session'.id = session.id)
  <2>1. CASE Throw(u)
    BY <2>1 DEF Throw
  <2>2. CASE Respond(u, NoSession)
    BY <1>3, <1>4, <2>2
  <2>3. CASE HasFile(session, f) /\ Respond(u, fileFinished(session, f, "failed"))
    <3>1. session \in Session /\ session # NoSession
      BY <2>3, SessionType DEF HasFile
    <3>2. fileFinished(session, f, "failed") \in Session
          /\ fileFinished(session, f, "failed").id = session.id
      BY <1>2, <1>4, <3>1, FileFinishedFields DEF FileStatus
    <3>3. QED BY <1>3, <1>4, <2>3, <3>1, <3>2
  <2>4. QED BY <1>4, <2>1, <2>2, <2>3 DEF Catch
<1>5. CASE UploadSaved(u)
  <2>1. CASE /\ Receiving(session) /\ HasFile(session, f) /\ upload[u].at = "saving"
             /\ session' = fileFinished(session, f, "finished")
    <3>1. session \in Session /\ session # NoSession
      BY <2>1, SessionType DEF HasFile
    <3>2. session'.id = session.id
      BY <1>2, <2>1, <3>1, FileFinishedFields DEF FileStatus
    <3>3. QED BY <3>1, <3>2
  <2>2. QED BY <1>4, <1>5, <2>1 DEF UploadSaved
<1>6. CASE UploadFailed(u) \/ HistoryFails(u)
  BY <1>4, <1>6 DEF UploadFailed, HistoryFails
<1>7. CASE HistoryAdded(u)
  BY <1>3, <1>7 DEF HistoryAdded, Throw, TypeOK
<1>8. CASE DelayedClose(u)
  BY <1>8 DEF DelayedClose, closeSession
<1>9. QED BY <1>5, <1>6, <1>7, <1>8 DEF UploadStep

\* The steps that leave handlers, decisions and the selection alone.
LEMMA OtherAsked ==
  ASSUME TypeOK, Safe, Asked,
         \/ UNCHANGED vars \/ StopServer \/ ServerClosed \/ StartServer
         \/ CloseSession \/ CancelSession
         \/ \E u \in Upload, ip \in Ip, r \in Request, f \in File : UploadBegin(u, ip, r, f)
         \/ \E u \in Upload : UploadStep(u)
         \/ \E ip \in Ip, r \in Request : CancelReceived(ip, r)
  PROVE  Asked'
<1> USE DEF userVars, handlerVars
<1>1. CASE UNCHANGED vars \/ StopServer \/ StartServer
  BY <1>1, AskedIdle DEF vars, StopServer, StartServer
<1>2. CASE ServerClosed \/ CloseSession \/ CancelSession
  BY <1>2, AskedIdle DEF ServerClosed, CloseSession, CancelSession, closeSession
<1>3. ASSUME NEW u \in Upload, NEW ip \in Ip, NEW r \in Request, NEW f \in File,
             UploadBegin(u, ip, r, f)
      PROVE  Asked'
  <2>1. session \in Session /\ session # NoSession
    BY <1>3, SessionType DEF UploadBegin, UploadVerdict
  <2>2. session'.id = session.id
    BY <1>3, <2>1, BeginFields DEF UploadBegin
  <2>3. QED BY <1>3, <2>1, <2>2, AskedIdle DEF UploadBegin
<1>4. ASSUME NEW u \in Upload, UploadStep(u)
      PROVE  Asked'
  <2>1. UNCHANGED <<prepare, decision, selected>> /\ pages' \in {pages, NoPages}
    BY <1>4 DEF UploadStep, UploadSaved, UploadFailed, HistoryAdded, HistoryFails,
                DelayedClose
  <2>2. QED BY <1>4, <2>1, UploadStepSession, AskedIdle
<1>5. ASSUME NEW ip \in Ip, NEW r \in Request, CancelReceived(ip, r)
      PROVE  Asked'
  <2>1. session \in Session /\ session # NoSession
    BY <1>5, SessionType DEF CancelReceived, CancelVerdict
  <2>2. session'.id = session.id
    BY <1>5, <2>1, StatusFields DEF CancelReceived, SessionStatus
  <2>3. QED BY <1>5, <2>1, <2>2, AskedIdle DEF CancelReceived
<1>6. QED BY <1>1, <1>2, <1>3, <1>4, <1>5

LEMMA SafeStep == IInv /\ [Next]_vars => IInv'
<1> SUFFICES ASSUME TypeOK, Safe, Asked, [Next]_vars
             PROVE  Safe' /\ Asked'
  BY TypeStep DEF IInv
<1>0. TypeOK'
  BY TypeStep
<1>1. CASE UNCHANGED vars \/ StopServer \/ StartServer
  BY <1>1, IdleKeeps, OtherAsked DEF vars, StopServer, StartServer, handlerVars, userVars
<1>2. CASE ServerClosed \/ CloseSession \/ CancelSession
  BY <1>2, ClosedKeeps, OtherAsked
     DEF ServerClosed, CloseSession, CancelSession, closeSession, handlerVars
<1>3. ASSUME NEW r \in Request, Prepare(r) \/ Page(r)
      PROVE  Safe' /\ Asked'
  BY <1>0, <1>3, PrepareSafe, PrepareAsked, PageSafe, PageAsked
<1>4. CASE \E u \in Upload, ip \in Ip, r \in Request, f \in File : UploadBegin(u, ip, r, f)
  BY <1>4, UploadBeginSafe, OtherAsked
<1>5. CASE \E u \in Upload : UploadStep(u)
  BY <1>5, UploadStepSafe, OtherAsked
<1>6. CASE \E ip \in Ip, r \in Request : CancelReceived(ip, r)
  BY <1>6, CancelSafe, OtherAsked
<1>7. QED
  BY <1>1, <1>2, <1>3, <1>4, <1>5, <1>6, OtherAsked DEF Next

\* The inductive invariant of the receive controller holds throughout, for any
\* number of senders, files, pages and sessions.
THEOREM Invariant == Spec => []IInv
<1>1. Init => IInv
  BY TypeInit, SafeInit DEF IInv
<1>2. QED BY <1>1, SafeStep, PTL DEF Spec

\* A file the receiver shows as finished, and every selected file of a session
\* that ended without errors, was saved for this session.
THEOREM FinishedWasSavedHolds == Spec => []FinishedWasSaved
<1>1. IInv => FinishedWasSaved
  BY DEF IInv, Safe
<1>2. QED BY <1>1, Invariant, PTL

\* A session is never left in "sending" with nothing to wait for, whatever the
\* order in which uploads end, fail and write their history entry, unless the
\* selection that was applied to it was made on the page of another request
\* and has none of its files.
THEOREM ActiveSessionAlwaysHasWork == Spec => []ActiveSessionHasWork
<1>1. IInv => ActiveSessionHasWork
  BY DEF IInv, Safe
<1>2. QED BY <1>1, Invariant, PTL

\* An upload that is answered 200 is on the disk.
THEOREM AnsweredOkIsAlwaysStored == Spec => []AnsweredOkIsStored
<1>1. IInv => AnsweredOkIsStored
  BY DEF IInv, Safe
<1>2. QED BY <1>1, Invariant, PTL

\* While a session takes a decision it was not accepted yet, and its
\* /prepare-upload waits for the decision, is on its way there, or has died on
\* that way.
THEOREM DecisionAlwaysHasHandler == Spec => []DecisionHasHandler
<1>1. IInv => DecisionHasHandler
  BY DEF IInv, Safe, SessionShape, DecisionHasHandler
<1>2. QED BY <1>1, Invariant, PTL

\* What a step of an upload does to the files of a session it is not part of.
LEMMA StaleStep ==
  ASSUME IInv, [Next]_vars, NEW u \in Upload, upload[u].at \in {"saving", "history"},
         upload'[u] # upload[u], session # NoSession, session.id # upload[u].sid
  PROVE  session' # NoSession /\ session'.id = session.id /\ session'.files = session.files
<1> USE DEF handlerVars, userVars
<1>0. TypeOK /\ Safe /\ session \in Session /\ upload \in [Upload -> UploadState]
  BY SessionType DEF IInv, TypeOK
<1>1. ~HasFile(session, upload[u].file)
  BY <1>0, SameSession
<1>2. UploadStep(u)
  <2>1. ASSUME NEW v \in Upload, NEW ip \in Ip, NEW r \in Request, NEW f \in File,
               UploadBegin(v, ip, r, f)
        PROVE  FALSE
    BY <1>0, <2>1 DEF UploadBegin
  <2>2. ASSUME NEW v \in Upload, UploadStep(v)
        PROVE  v = u
    <3>1. SUFFICES ASSUME v # u PROVE upload'[u] = upload[u]
      OBVIOUS
    <3>2. CASE DelayedClose(v)
      BY <3>2 DEF DelayedClose
    <3>3. upload[v].at \in {"saving", "history"} /\ Catch(v) => upload'[u] = upload[u]
      BY <1>0, <3>1 DEF Catch, Throw, Respond, Moved
    <3>4. Respond(v, session) \/ Throw(v) => upload'[u] = upload[u]
      BY <1>0, <3>1 DEF Throw, Respond, Moved
    <3>5. QED
      BY <1>0, <2>2, <3>1, <3>2, <3>3, <3>4
         DEF UploadStep, UploadSaved, UploadFailed, HistoryAdded, HistoryFails, Moved
  <2>3. CASE \E r \in Request : Prepare(r)
    BY <2>3 DEF Prepare, PrepareReceived, PrepareMalformed, OpenSession, WindowShown, MessageNoted
  <2>4. CASE (\E r \in Request : Page(r)) \/ CloseSession \/ CancelSession
    BY <2>4 DEF Page, FirstFrame, TurnsBlank, AcceptFiles, AcceptMessage, Decline, ClosePage,
                CloseSession, CancelSession
  <2>5. CASE \E ip \in Ip, r \in Request : CancelReceived(ip, r)
    BY <2>5 DEF CancelReceived
  <2>6. CASE StopServer \/ ServerClosed \/ StartServer
    BY <2>6 DEF StopServer, ServerClosed, StartServer
  <2>7. CASE UNCHANGED vars
    BY <2>7 DEF vars
  <2>8. QED
    BY <2>1, <2>2, <2>3, <2>4, <2>5, <2>6, <2>7 DEF Next
<1>3. Throw(u) => session' = session
  BY DEF Throw
<1>4. Respond(u, session) => session' # NoSession /\ session'.id = session.id
                             /\ session'.files = session.files
  BY <1>0, RespondFacts, SessionFields
<1>5. Catch(u) => session' = session
  BY <1>1, <1>3 DEF Catch
<1>6. CASE UploadSaved(u)
  BY <1>0, <1>1, <1>5, <1>6 DEF UploadSaved
<1>7. CASE UploadFailed(u) \/ HistoryFails(u) \/ HistoryAdded(u)
  BY <1>0, <1>3, <1>4, <1>5, <1>7 DEF UploadFailed, HistoryFails, HistoryAdded
<1>8. CASE DelayedClose(u)
  BY <1>8 DEF DelayedClose
<1>9. QED
  BY <1>2, <1>6, <1>7, <1>8 DEF UploadStep

\* An upload that outlives its session changes no file of the next one.
THEOREM StaleUploadsAreHarmless == Spec => StaleUploadsHarmless
<1> DEFINE A == \A u \in Upload :
                  upload[u].at \in {"saving", "history"} /\ upload'[u] # upload[u]
                  /\ session # NoSession /\ session.id # upload[u].sid
                    => session' # NoSession /\ session'.id = session.id
                       /\ session'.files = session.files
<1>1. IInv /\ [Next]_vars => [A]_vars
  BY StaleStep
<1>2. QED
  BY <1>1, Invariant, PTL DEF Spec, StaleUploadsHarmless

=============================================================================
