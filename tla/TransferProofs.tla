--------------------------- MODULE TransferProofs ---------------------------
(***************************************************************************)
(* A transfer over HTTP implements Delivery, for every set of files, every *)
(* number of upload loops and every number of retries.                     *)
(***************************************************************************)
EXTENDS Transfer, TLAPS

-----------------------------------------------------------------------------
\* The inductive invariant.

\* What the sender works on are files of the session.
SenderShape ==
    /\ tokens \subseteq File
    /\ task \in [Task -> File \cup {NoFile}]
    /\ sent \subseteq File

\* The types of what the receiver keeps.
ReceiverShape ==
    /\ server = "on"
    /\ session \in R!Session \cup {R!NoSession}
    /\ prepare = [r \in {"r"} |-> prepare[r]]
    /\ upload = [u \in Task \X File |-> upload[u]]
    /\ granted \subseteq File
    /\ saved \subseteq {"r"} \X File

\* Until /prepare-upload is answered, nothing is granted; only the session of
\* a request that is not answered yet takes a decision.
GrantedOnce ==
    /\ prepare["r"] \in {"idle", "checked", "stored", "waiting", "thrown"} => granted = {}
    /\ session # R!NoSession /\ session.open => prepare["r"] \in {"stored", "waiting", "thrown"}

\* The page is there only after the handler has come to its wait, so that no
\* decision is ever kept in the stream.
PageWaited ==
    /\ decision = [r \in {"r"} |-> {}]
    /\ pages = [r \in {"r"} |-> pages[r]]
    /\ pages["r"] # "none" => prepare["r"] \notin {"idle", "checked", "stored", "noting", "thrown"}

\* Tokens are issued for the granted files.
TokensGranted == session # R!NoSession => session.tokens = granted

\* Task t's upload of file f saves f, which was granted; it writes the history
\* and answers 200 only when f is on the disk.
UploadsGranted ==
    \A t \in Task, f \in File :
      LET u == upload[<<t, f>>] IN
      /\ u.at # "idle" => u.sid = "r" /\ u.file = f /\ f \in granted
      /\ u.at \in {"history", "200"} => <<"r", f>> \in saved

\* Only granted files are stored, and what is reported is stored.
StoredGranted  == StoredFiles \subseteq granted
ReportedStored == sent \subseteq StoredFiles

IInv ==
    /\ SenderShape /\ ReceiverShape /\ GrantedOnce /\ PageWaited /\ TokensGranted
    /\ UploadsGranted /\ StoredGranted /\ ReportedStored

-----------------------------------------------------------------------------
\* Sessions.

LEMMA SessionFields ==
  ASSUME NEW s \in R!Session
  PROVE  s # R!NoSession /\ s.id = "r" /\ s.files \in [File -> R!FileStatus \cup {"absent"}]
         /\ s.tokens \subseteq File
BY DEF R!Session, R!NoSession

LEMMA NewSessionFields ==
  /\ R!NewSession("r") \in R!Session
  /\ R!NewSession("r").tokens = {}
BY DEF R!NewSession, R!Session, R!SessionStatus, R!FileStatus

LEMMA AcceptedFields ==
  ASSUME NEW s \in R!Session, NEW choice \in SUBSET File
  PROVE  /\ R!Accepted(s, choice, "r") \in R!Session
         /\ R!Accepted(s, choice, "r").open = FALSE
BY DEF R!Accepted, R!Session, R!SessionStatus, R!FileStatus

\* What the receiver's steps after the decision do to a session.
SameGrant(s, t) ==
    t # R!NoSession => t \in R!Session /\ s \in R!Session /\ t.tokens = s.tokens /\ t.open = s.open

LEMMA StatusFields ==
  ASSUME NEW s \in R!Session, NEW st \in R!SessionStatus
  PROVE  SameGrant(s, [s EXCEPT !.status = st])
BY DEF SameGrant, R!Session

LEMMA FileFields ==
  ASSUME NEW s \in R!Session, NEW f \in File, NEW st \in R!FileStatus
  PROVE  /\ SameGrant(s, R!fileFinished(s, f, st))
         /\ R!fileFinished(s, f, st) \in R!Session
         /\ R!fileFinished(s, f, st).files[f] = st
BY DEF SameGrant, R!Session, R!fileFinished

LEMMA BeginFields ==
  ASSUME NEW s \in R!Session, NEW f \in File
  PROVE  SameGrant(s, [s EXCEPT !.files[f] = "sending", !.status = "sending"])
BY DEF SameGrant, R!Session, R!SessionStatus, R!FileStatus

-----------------------------------------------------------------------------
\* Steps of the sender: none of them stores or grants anything.

LEMMA InitInv == Init => IInv
<1> SUFFICES ASSUME Init PROVE IInv
  OBVIOUS
<1>1. SenderShape
  BY DEF Init, S!Init, SenderShape, Task, S!Task
<1>2. GrantedOnce /\ TokensGranted
  BY DEF Init, R!Init, GrantedOnce, TokensGranted
<1>7. PageWaited
  <2>1. pages = [r \in {"r"} |-> "none"] /\ decision = [r \in {"r"} |-> {}]
    BY DEF Init, R!Init
  <2>2. pages["r"] = "none" /\ pages = [r \in {"r"} |-> pages[r]]
    BY <2>1
  <2>3. QED BY <2>1, <2>2 DEF PageWaited
<1>3. ReceiverShape
  <2>1. upload = [u \in Task \X File |-> [at |-> "idle"]]
    BY DEF Init, R!Init
  <2>2. upload = [u \in Task \X File |-> upload[u]]
    BY <2>1
  <2>3. prepare = [r \in {"r"} |-> "idle"]
    BY DEF Init, R!Init
  <2>4. prepare = [r \in {"r"} |-> prepare[r]]
    BY <2>3
  <2>5. QED
    BY <2>2, <2>4 DEF Init, R!Init, ReceiverShape
<1>4. UploadsGranted
  BY DEF Init, R!Init, UploadsGranted
<1>5. StoredGranted /\ ReportedStored
  BY DEF Init, R!Init, S!Init, StoredGranted, ReportedStored, StoredFiles
<1>6. QED
  BY <1>1, <1>2, <1>3, <1>4, <1>5, <1>7 DEF IInv

\* The receiver and the grant are as before.
LEMMA SenderInv ==
  ASSUME IInv, SenderShape', UNCHANGED <<server, session, prepare, decision, pages, upload, granted, saved>>,
         sent' \subseteq StoredFiles
  PROVE  IInv'
<1>1. ReceiverShape' /\ GrantedOnce' /\ PageWaited'
  BY DEF IInv, ReceiverShape, GrantedOnce, PageWaited
<1>2. TokensGranted' /\ UploadsGranted'
  BY DEF IInv, TokensGranted, UploadsGranted
<1>3. StoredGranted' /\ ReportedStored'
  BY DEF IInv, StoredGranted, ReportedStored, StoredFiles
<1>4. QED
  BY <1>1, <1>2, <1>3 DEF IInv

LEMMA SenderShapeKept ==
  ASSUME IInv, UNCHANGED <<tokens, task, sent>>
  PROVE  SenderShape'
BY DEF IInv, SenderShape

LEMMA RequestInv == ASSUME IInv, Request PROVE IInv' /\ sent' = sent
<1>1. UNCHANGED <<tokens, task, sent>>
  BY DEF Request, S!StartSession, S!taskVars, S!ghostVars
<1>2. UNCHANGED <<server, session, prepare, decision, pages, upload, granted, saved>>
  BY DEF Request, SenderOnly, receiverVars
<1>3. QED
  BY <1>1, <1>2, SenderShapeKept, SenderInv DEF IInv, ReportedStored

LEMMA AnsweredInv == ASSUME IInv, RequestAnswered \/ RequestBroken PROVE IInv' /\ sent' = sent
<1>1. UNCHANGED <<server, session, prepare, decision, pages, upload, granted, saved>>
  BY DEF RequestAnswered, RequestBroken, SenderOnly, receiverVars
<1>2. CASE S!PrepareAccepted(granted)
  <2>1. tokens' = granted /\ UNCHANGED <<task, sent>>
    BY <1>2 DEF S!PrepareAccepted, S!taskVars, S!ghostVars
  <2>2. SenderShape'
    BY <2>1 DEF IInv, SenderShape, ReceiverShape
  <2>3. QED
    BY <1>1, <2>1, <2>2, SenderInv DEF IInv, ReportedStored
<1>3. CASE S!PrepareRefused("403") \/ S!PrepareRefused("error")
  <2>1. UNCHANGED <<tokens, task, sent>>
    BY <1>3 DEF S!PrepareRefused, S!taskVars, S!ghostVars
  <2>2. QED
    BY <1>1, <2>1, SenderShapeKept, SenderInv DEF IInv, ReportedStored
<1>4. QED
  BY <1>2, <1>3 DEF RequestAnswered, RequestBroken

LEMMA LoopInv == ASSUME IInv, SendLoop PROVE IInv' /\ sent' = sent
<1>1. UNCHANGED <<server, session, prepare, decision, pages, upload, granted, saved>>
  BY DEF SendLoop, SenderOnly, receiverVars
<1>2. CASE S!LoopFinished
  <2>1. UNCHANGED <<tokens, task, sent>>
    BY <1>2 DEF S!LoopFinished, S!taskVars, S!ghostVars
  <2>2. QED
    BY <1>1, <2>1, SenderShapeKept, SenderInv DEF IInv, ReportedStored
<1>3. ASSUME NEW w \in Worker, S!ExitLoop(w)
      PROVE  IInv' /\ sent' = sent
  <2>1. UNCHANGED <<tokens, task, sent>>
    BY <1>3 DEF S!ExitLoop, S!taskVars, S!ghostVars
  <2>2. QED
    BY <1>1, <2>1, SenderShapeKept, SenderInv DEF IInv, ReportedStored
<1>4. ASSUME NEW w \in Worker, S!TakeFile(w)
      PROVE  IInv' /\ sent' = sent
  <2>1. UNCHANGED <<tokens, sent>>
    BY <1>4 DEF S!TakeFile, S!ghostVars
  <2>2. task' = task \/ \E f \in tokens : task' = [task EXCEPT ![w] = f]
    BY <1>4 DEF S!TakeFile, S!BeginUpload
  <2>3. SenderShape'
    BY <2>1, <2>2 DEF IInv, SenderShape
  <2>4. QED
    BY <1>1, <2>1, <2>3, SenderInv DEF IInv, ReportedStored
<1>5. QED
  BY <1>2, <1>3, <1>4 DEF SendLoop, S!Loop

LEMMA RetryInv == ASSUME IInv, RetryFile PROVE IInv' /\ sent' = sent
<1>1. UNCHANGED <<server, session, prepare, decision, pages, upload, granted, saved>>
  BY DEF RetryFile, SenderOnly, receiverVars
<1>2. PICK t \in Retry, f \in File : S!RetryFile(t, f)
  BY DEF RetryFile
<1>3. UNCHANGED <<tokens, sent>> /\ task' = [task EXCEPT ![t] = f]
  BY <1>2 DEF S!RetryFile, S!BeginUpload, S!loopVars
<1>4. SenderShape'
  BY <1>3 DEF IInv, SenderShape
<1>5. QED
  BY <1>1, <1>3, <1>4, SenderInv DEF IInv, ReportedStored

LEMMA UploadNotOkInv ==
  ASSUME IInv, NEW t \in Task, UploadNotOk(t)
  PROVE  IInv' /\ sent' = sent
<1>1. UNCHANGED <<server, session, prepare, decision, pages, upload, granted, saved>>
  BY DEF UploadNotOk, SenderOnly, receiverVars
<1>2. tokens' = tokens /\ sent' = sent /\ task' = [task EXCEPT ![t] = NoFile]
  BY DEF UploadNotOk, S!UploadEnded, S!loopVars
<1>3. SenderShape'
  BY <1>2 DEF IInv, SenderShape
<1>4. QED
  BY <1>1, <1>2, <1>3, SenderInv DEF IInv, ReportedStored

\* The upload answered 200 has stored its file: the sender reports it.
LEMMA UploadOkInv ==
  ASSUME IInv, NEW t \in Task, UploadOk(t)
  PROVE  /\ IInv'
         /\ \E f \in File : f \in StoredFiles /\ sent' = sent \cup {f}
         /\ UNCHANGED <<granted, saved>>
<1>1. UNCHANGED <<server, session, prepare, decision, pages, upload, granted, saved>>
  BY DEF UploadOk, SenderOnly, receiverVars
<1>2. task[t] \in File
  BY DEF UploadOk, IInv, SenderShape
<1>3. tokens' = tokens /\ sent' = sent \cup {task[t]} /\ task' = [task EXCEPT ![t] = NoFile]
  BY DEF UploadOk, S!UploadEnded, S!loopVars
<1>4. SenderShape'
  BY <1>2, <1>3 DEF IInv, SenderShape
<1>5. <<"r", task[t]>> \in saved
  BY <1>2 DEF UploadOk, Handler, IInv, UploadsGranted
<1>6. task[t] \in StoredFiles
  BY <1>2, <1>5 DEF StoredFiles
<1>7. QED
  BY <1>1, <1>2, <1>3, <1>4, <1>6, SenderInv DEF IInv, ReportedStored

LEMMA SenderCancelInv ==
  ASSUME IInv, \/ SenderCancels \/ ReceiverCancelArrives \/ CancelLost
               \/ S!CloseSession /\ SenderOnly
  PROVE  IInv' /\ sent' = sent
<1>1. UNCHANGED <<server, session, prepare, decision, pages, upload, granted, saved>>
  BY DEF SenderCancels, ReceiverCancelArrives, CancelLost, SenderOnly, receiverVars
<1>2. UNCHANGED <<tokens, task, sent>>
  BY DEF SenderCancels, ReceiverCancelArrives, CancelLost, S!CancelSession, S!CancelByReceiver,
     S!CloseSession, S!loopVars, S!taskVars, S!ghostVars, senderVars
<1>3. QED
  BY <1>1, <1>2, SenderShapeKept, SenderInv DEF IInv, ReportedStored

-----------------------------------------------------------------------------
\* Steps of the receiver.

\* The page stays or is closed.
LEMMA PagesKept ==
  ASSUME IInv, UNCHANGED <<prepare, decision>>,
         pages' \in {pages, R!NoPages} \/ pages' = [pages EXCEPT !["r"] = "none"]
  PROVE  PageWaited'
<1>1. CASE pages' = pages
  BY <1>1 DEF IInv, PageWaited
<1>2. CASE pages' = R!NoPages \/ pages' = [pages EXCEPT !["r"] = "none"]
  <2>1. pages'["r"] = "none" /\ pages' = [r \in {"r"} |-> pages'[r]]
    BY <1>2 DEF IInv, PageWaited, R!NoPages
  <2>2. QED BY <2>1 DEF IInv, PageWaited
<1>3. QED BY <1>1, <1>2

\* One upload handler goes on, the session keeps its grant.
LEMMA ReceiverInv ==
  ASSUME IInv,
         SameGrant(session, session'),
         UNCHANGED <<server, prepare, decision, granted, tokens, task, sent>>,
         pages' \in {pages, R!NoPages},
         NEW t \in Task, NEW f \in File, NEW u,
         upload' = [upload EXCEPT ![<<t, f>>] = u],
         u.at # "idle" => u.sid = "r" /\ u.file = f /\ f \in granted,
         u.at \in {"history", "200"} => <<"r", f>> \in saved',
         saved' = saved \/ (saved' = saved \cup {<<"r", f>>} /\ f \in granted)
  PROVE  IInv'
<1>1. SenderShape'
  BY SenderShapeKept
<1>2. session' \in R!Session \cup {R!NoSession}
  BY DEF SameGrant
<1>3. saved' \subseteq {"r"} \X File /\ saved \subseteq saved'
  BY DEF IInv, ReceiverShape
<1>4. upload' = [v \in Task \X File |-> upload'[v]]
  BY DEF IInv, ReceiverShape
<1>5. ReceiverShape'
  BY <1>2, <1>3, <1>4 DEF IInv, ReceiverShape
<1>6. GrantedOnce' /\ PageWaited' /\ TokensGranted'
  BY SessionFields, PagesKept DEF IInv, GrantedOnce, TokensGranted, SameGrant
<1>7. UploadsGranted'
  <2> SUFFICES ASSUME NEW x \in Task, NEW g \in File
               PROVE  LET v == upload'[<<x, g>>] IN
                      /\ v.at # "idle" => v.sid = "r" /\ v.file = g /\ g \in granted'
                      /\ v.at \in {"history", "200"} => <<"r", g>> \in saved'
    BY DEF UploadsGranted
  <2>1. CASE x = t /\ g = f
    <3>1. upload'[<<x, g>>] = u
      BY <2>1 DEF IInv, ReceiverShape
    <3>2. QED
      BY <2>1, <3>1
  <2>2. CASE ~(x = t /\ g = f)
    <3>1. upload'[<<x, g>>] = upload[<<x, g>>]
      BY <2>2 DEF IInv, ReceiverShape
    <3>2. QED
      BY <3>1, <1>3 DEF IInv, UploadsGranted
  <2>3. QED
    BY <2>1, <2>2
<1>8. StoredGranted' /\ ReportedStored'
  BY <1>3 DEF IInv, StoredGranted, ReportedStored, StoredFiles
<1>9. QED
  BY <1>1, <1>5, <1>6, <1>7, <1>8 DEF IInv

\* No handler of an upload goes on, the session keeps its grant.
LEMMA SessionInv ==
  ASSUME IInv, SameGrant(session, session'),
         UNCHANGED <<server, prepare, decision, granted, upload, saved, tokens, task, sent>>,
         pages' \in {pages, R!NoPages}
  PROVE  IInv'
<1>1. session' \in R!Session \cup {R!NoSession}
  BY DEF SameGrant
<1>2. ReceiverShape'
  BY <1>1 DEF IInv, ReceiverShape
<1>3. GrantedOnce' /\ PageWaited' /\ TokensGranted'
  BY SessionFields, PagesKept DEF IInv, GrantedOnce, TokensGranted, SameGrant
<1>4. QED
  BY <1>2, <1>3, SenderShapeKept DEF IInv, UploadsGranted, StoredGranted, ReportedStored,
     StoredFiles

LEMMA SessionSame ==
  ASSUME IInv, session' = session
  PROVE  SameGrant(session, session')
BY DEF IInv, ReceiverShape, SameGrant

LEMMA ArrivesInv == ASSUME IInv, RequestArrives PROVE IInv' /\ UNCHANGED <<sent, granted, saved>>
<1>1. UNCHANGED <<server, tokens, task, sent, session, decision, pages, upload, granted, saved>>
  BY DEF RequestArrives, ReceiverOnly, senderVars, R!PrepareReceived, R!userVars
<1>2. prepare["r"] = "idle" /\ \E code : prepare' = [prepare EXCEPT !["r"] = code]
  BY DEF RequestArrives, R!PrepareReceived, R!Answer
<1>3. prepare' = [r \in {"r"} |-> prepare'[r]]
  BY <1>2 DEF IInv, ReceiverShape
<1>4. granted = {} /\ ~(session # R!NoSession /\ session.open) /\ pages["r"] = "none"
  BY <1>2 DEF IInv, GrantedOnce, PageWaited
<1>5. ReceiverShape' /\ GrantedOnce' /\ PageWaited'
  BY <1>1, <1>3, <1>4 DEF IInv, ReceiverShape, GrantedOnce, PageWaited
<1>6. QED
  BY <1>1, <1>5, SenderShapeKept DEF IInv, TokensGranted, UploadsGranted, StoredGranted,
     ReportedStored, StoredFiles

\* Quick save or the user grants a selection, once.
LEMMA GrantInv ==
  ASSUME IInv, NEW s \in R!Session, session' = s, prepare["r"] \in {"checked", "waiting"},
         prepare' = [prepare EXCEPT !["r"] = "200"], s.open = FALSE,
         granted' = s.tokens, pages' \in {pages, [pages EXCEPT !["r"] = "none"]},
         UNCHANGED <<server, decision, tokens, task, sent, upload, saved>>
  PROVE  IInv' /\ granted = {}
<1>1. granted = {}
  BY DEF IInv, GrantedOnce
<1>2. prepare' = [r \in {"r"} |-> prepare'[r]] /\ prepare'["r"] = "200"
  BY DEF IInv, ReceiverShape
<1>3. pages' = [r \in {"r"} |-> pages'[r]]
  BY DEF IInv, PageWaited
<1>4. ReceiverShape' /\ GrantedOnce' /\ PageWaited' /\ TokensGranted'
  BY <1>2, <1>3, SessionFields DEF IInv, ReceiverShape, GrantedOnce, PageWaited, TokensGranted
<1>5. UploadsGranted' /\ StoredGranted' /\ ReportedStored'
  BY <1>1 DEF IInv, UploadsGranted, StoredGranted, ReportedStored, StoredFiles
<1>6. QED
  BY <1>1, <1>4, <1>5, SenderShapeKept DEF IInv

\* The handler goes on without a grant.
LEMMA NoGrantInv ==
  ASSUME IInv, session' \in R!Session \cup {R!NoSession},
         session' # R!NoSession => session'.tokens = granted,
         NEW how, prepare' = [prepare EXCEPT !["r"] = how],
         \/ how \in {"stored", "waiting", "thrown"} /\ granted = {}
         \/ how = "403" /\ session' = R!NoSession,
         pages' \in [{"r"} -> {"none", "blank"}],
         pages'["r"] = "blank" => how = "waiting",
         UNCHANGED <<server, decision, granted, tokens, task, sent, upload, saved>>
  PROVE  IInv'
<1>1. prepare' = [r \in {"r"} |-> prepare'[r]] /\ prepare'["r"] = how
  BY DEF IInv, ReceiverShape
<1>2. pages' = [r \in {"r"} |-> pages'[r]]
  OBVIOUS
<1>3. pages'["r"] # "none" => pages'["r"] = "blank"
  OBVIOUS
<1>4. ReceiverShape' /\ GrantedOnce' /\ PageWaited' /\ TokensGranted'
  BY <1>1, <1>2, <1>3, SessionFields DEF IInv, ReceiverShape, GrantedOnce, PageWaited, TokensGranted
<1>5. QED
  BY <1>4, SenderShapeKept DEF IInv, UploadsGranted, StoredGranted, ReportedStored, StoredFiles

LEMMA OpenedInv ==
  ASSUME IInv, SessionOpened
  PROVE  /\ IInv' /\ UNCHANGED <<sent, saved>>
         /\ granted' = granted \/ (granted = {} /\ granted' # {} /\ granted' \subseteq File)
<1>1. UNCHANGED <<server, tokens, task, sent, decision, pages, upload, saved>>
      /\ prepare["r"] = "checked"
  BY DEF SessionOpened, ReceiverOnly, senderVars, R!OpenSession, R!userVars
<1>2. PICK quick \in QuickSave : R!OpenSession("r", quick)
                                 /\ granted' = IF quick THEN File ELSE granted
  BY DEF SessionOpened
<1>3. granted = {} /\ pages["r"] = "none" /\ pages = [r \in {"r"} |-> pages[r]]
  BY <1>1 DEF IInv, GrantedOnce, PageWaited
<1>4. R!Up
  BY DEF IInv, ReceiverShape, R!Up
<1>5. CASE quick
  <2> DEFINE s == R!Accepted(R!NewSession("r"), File, "r")
  <2>1. session' = s /\ prepare' = [prepare EXCEPT !["r"] = "200"] /\ granted' = File
    BY <1>2, <1>4, <1>5 DEF R!OpenSession, R!Answer
  <2>2. s \in R!Session /\ s.open = FALSE
    BY NewSessionFields, AcceptedFields
  <2>3. s.tokens = File
    BY DEF R!Accepted, R!NewSession
  <2> HIDE DEF s
  <2>4. IInv'
    BY <1>1, <2>1, <2>2, <2>3, GrantInv
  <2>5. QED
    BY <1>1, <1>3, <2>1, <2>4, TransferAssumption
<1>6. CASE ~quick
  <2>1. /\ session' = R!NewSession("r") /\ prepare' = [prepare EXCEPT !["r"] = "stored"]
        /\ granted' = granted
    BY <1>2, <1>4, <1>6 DEF R!OpenSession, R!Answer
  <2>2. pages' \in [{"r"} -> {"none", "blank"}] /\ pages'["r"] = "none"
    BY <1>1, <1>3
  <2>3. IInv'
    BY <1>1, <1>3, <2>1, <2>2, NewSessionFields, NoGrantInv
  <2>4. QED
    BY <1>1, <2>1, <2>3
<1>7. QED
  BY <1>5, <1>6

LEMMA PageShownInv ==
  ASSUME IInv, PageShown
  PROVE  IInv' /\ UNCHANGED <<sent, granted, saved>>
<1>1. UNCHANGED <<server, tokens, task, sent, upload, granted, saved>>
  BY DEF PageShown, ReceiverOnly, senderVars, R!WindowShown, R!FirstFrame, R!TurnsBlank,
     R!handlerVars
<1>2. decision["r"] = {} /\ pages = [r \in {"r"} |-> pages[r]]
  BY DEF IInv, PageWaited
<1>3. CASE R!FirstFrame("r") \/ R!TurnsBlank("r")
  <2>1. UNCHANGED <<session, prepare, decision>>
    BY <1>3 DEF R!FirstFrame, R!TurnsBlank, R!handlerVars
  <2>2. pages["r"] # "none" /\ pages' = [r \in {"r"} |-> pages'[r]]
    BY <1>2, <1>3 DEF R!FirstFrame, R!TurnsBlank
  <2>3. PageWaited'
    BY <2>1, <2>2 DEF IInv, PageWaited
  <2>4. QED
    BY <1>1, <2>1, <2>3, SenderShapeKept DEF IInv, ReceiverShape, GrantedOnce, TokensGranted,
       UploadsGranted, StoredGranted, ReportedStored, StoredFiles
<1>4. CASE R!WindowShown("r")
  <2>1. prepare["r"] = "stored" /\ granted = {}
    BY <1>4 DEF R!WindowShown, IInv, GrantedOnce
  <2>2. pages["r"] = "none"
    BY <2>1 DEF IInv, PageWaited
  <2>3. session' = session /\ decision' = decision
        /\ \/ prepare' = [prepare EXCEPT !["r"] = "thrown"] /\ pages' = pages
           \/ /\ prepare' = [prepare EXCEPT !["r"] = "waiting"]
              /\ pages' = [pages EXCEPT !["r"] = "blank"]
    BY <1>2, <1>4 DEF R!WindowShown, R!PushPage, R!PrepareThrows, R!Answer
  <2>4. pages' \in [{"r"} -> {"none", "blank"}]
    BY <1>2, <2>2, <2>3
  <2>5. session \in R!Session \cup {R!NoSession} /\ (session # R!NoSession => session.tokens = granted)
    BY DEF IInv, ReceiverShape, TokensGranted
  <2>6. CASE prepare' = [prepare EXCEPT !["r"] = "thrown"] /\ pages' = pages
    BY <1>1, <2>1, <2>2, <2>3, <2>4, <2>5, <2>6, NoGrantInv
  <2>7. CASE prepare' = [prepare EXCEPT !["r"] = "waiting"]
    BY <1>1, <2>1, <2>3, <2>4, <2>5, <2>7, NoGrantInv
  <2>8. QED BY <1>1, <2>3, <2>6, <2>7
<1>5. QED
  BY <1>3, <1>4 DEF PageShown

LEMMA DecisionInv ==
  ASSUME IInv, Decision
  PROVE  /\ IInv' /\ UNCHANGED <<sent, saved>>
         /\ granted' = granted \/ (granted = {} /\ granted' # {} /\ granted' \subseteq File)
<1>1. UNCHANGED <<server, tokens, task, sent, upload, saved>>
      /\ pages' = [pages EXCEPT !["r"] = "none"] /\ pages["r"] # "none"
  BY DEF Decision, ReceiverOnly, senderVars, R!AcceptFiles, R!Decline, R!PageClosed
<1>2. session \in R!Session \cup {R!NoSession} /\ pages = [r \in {"r"} |-> pages[r]]
  BY DEF IInv, ReceiverShape, PageWaited
<1>3. session # R!NoSession => session.id = "r"
  BY <1>2, SessionFields
<1>4. session # R!NoSession /\ session.open => prepare["r"] = "waiting" /\ granted = {}
  BY <1>1 DEF IInv, GrantedOnce, PageWaited
<1>5. R!Up
  BY DEF IInv, ReceiverShape, R!Up
<1>6. ASSUME UNCHANGED <<session, decision, prepare, granted>>
      PROVE  IInv'
  <2>1. PageWaited'
    BY <1>1, <1>6, PagesKept
  <2>2. QED
    BY <1>1, <1>6, <2>1, SenderShapeKept DEF IInv, ReceiverShape, GrantedOnce, TokensGranted,
       UploadsGranted, StoredGranted, ReportedStored, StoredFiles
<1>7. ASSUME NEW accepted \in SUBSET File, R!AcceptFiles("r", accepted), granted' = session'.tokens
      PROVE  IInv' /\ (granted' = granted \/ (granted = {} /\ granted' # {} /\ granted' \subseteq File))
  <2>1. session # R!NoSession /\ accepted # {}
        /\ accepted \subseteq selected \cup {f \in File : R!HasFile(session, f)}
    BY <1>7 DEF R!AcceptFiles
  <2>2. CASE session.open
    <3> DEFINE s == R!Accepted(session, accepted, "r")
    <3>1. session' = s /\ prepare' = [prepare EXCEPT !["r"] = "200"] /\ decision' = decision
      BY <1>3, <1>4, <1>5, <1>7, <2>1, <2>2
         DEF R!AcceptFiles, R!Decide, R!Concluded, R!Answer
    <3>2. s \in R!Session /\ s.open = FALSE
      BY <1>2, <2>1, AcceptedFields
    <3> HIDE DEF s
    <3>3. IInv' /\ granted = {}
      BY <1>1, <1>4, <1>7, <2>1, <2>2, <3>1, <3>2, GrantInv
    <3>4. granted' \subseteq File
      BY <1>7, <3>1, <3>2, SessionFields
    <3>5. QED BY <3>3, <3>4
  <2>3. CASE ~session.open
    <3>1. UNCHANGED <<session, decision, prepare>>
      BY <1>7, <2>1, <2>3 DEF R!AcceptFiles, R!Decide
    <3>2. granted' = granted
      BY <1>7, <2>1, <3>1 DEF IInv, TokensGranted
    <3>3. QED BY <1>6, <3>1, <3>2
  <2>4. QED BY <2>2, <2>3
<1>8. CASE R!Decline("r") /\ granted' = granted
  <2>1. \/ UNCHANGED <<session, decision, prepare>>
        \/ /\ session # R!NoSession /\ session.open /\ session' = R!NoSession
           /\ prepare' = [prepare EXCEPT !["r"] = "403"] /\ decision' = decision
    BY <1>3, <1>4, <1>5, <1>8
       DEF R!Decline, R!Decide, R!Concluded, R!closeSession, R!Answer
  <2>2. pages' \in [{"r"} -> {"none", "blank"}] /\ pages'["r"] = "none"
    BY <1>1, <1>2
  <2>3. QED
    BY <1>1, <1>6, <1>8, <2>1, <2>2, NoGrantInv
<1>9. QED
  BY <1>1, <1>7, <1>8 DEF Decision

LEMMA ReceiverCancelInv ==
  ASSUME IInv, \/ SenderCancelArrives \/ ReceiverCancels
               \/ (R!CloseSession \/ R!ClosePage("r")) /\ ReceiverOnly /\ UNCHANGED granted
  PROVE  IInv' /\ UNCHANGED <<sent, granted, saved>>
<1>1. UNCHANGED <<server, prepare, decision, granted, upload, saved, tokens, task, sent>>
  BY DEF SenderCancelArrives, ReceiverCancels, ReceiverOnly, senderVars, receiverVars,
     R!CancelReceived, R!CancelSession, R!CloseSession, R!ClosePage, R!userVars, R!handlerVars
<1>2. pages' \in {pages, R!NoPages} \/ pages' = [pages EXCEPT !["r"] = "none"]
  BY DEF SenderCancelArrives, ReceiverCancels, receiverVars, R!CancelReceived, R!CancelSession,
     R!CloseSession, R!ClosePage, R!PageClosed, R!userVars
<1>3. pages' \in {pages, R!NoPages}
  BY <1>2 DEF IInv, PageWaited, R!NoPages
<1>4. CASE session' = R!NoSession \/ session' = session
  BY <1>1, <1>3, <1>4, SessionSame, SessionInv DEF SameGrant
<1>5. CASE R!CancelReceived("ip", "r")
  <2>1. session \in R!Session
    BY <1>5 DEF R!CancelReceived, R!CancelVerdict, IInv, ReceiverShape
  <2>2. SameGrant(session, session')
    BY <1>5, <2>1, StatusFields DEF R!CancelReceived, R!SessionStatus
  <2>3. QED
    BY <1>1, <1>3, <2>2, SessionInv
<1>6. QED
  BY <1>4, <1>5 DEF SenderCancelArrives, ReceiverCancels, R!CancelSession, R!CloseSession,
     R!ClosePage, R!closeSession, receiverVars

LEMMA UploadArrivesInv ==
  ASSUME IInv, NEW t \in Task, UploadArrives(t)
  PROVE  IInv' /\ UNCHANGED <<sent, granted, saved>>
<1> DEFINE f == task[t]
           u == [at |-> "saving", sid |-> "r", file |-> f]
<1>1. UNCHANGED <<server, prepare, decision, pages, granted, tokens, task, sent, saved>>
  BY DEF UploadArrives, ReceiverOnly, senderVars, R!UploadBegin, R!userVars
<1>2. f \in File
  BY DEF UploadArrives, IInv, SenderShape
<1>3. session \in R!Session /\ f \in session.tokens
  BY DEF UploadArrives, R!UploadBegin, R!UploadVerdict, IInv, ReceiverShape
<1>4. f \in granted
  BY <1>3, SessionFields DEF IInv, TokensGranted
<1>5. SameGrant(session, session')
  BY <1>2, <1>3, BeginFields DEF UploadArrives, R!UploadBegin
<1>6. upload' = [upload EXCEPT ![<<t, f>>] = u]
  BY DEF UploadArrives, R!UploadBegin
<1>7. u.at = "saving" /\ u.sid = "r" /\ u.file = f
  OBVIOUS
<1> HIDE DEF u, f
<1>8. QED
  BY <1>1, <1>2, <1>4, <1>5, <1>6, <1>7, ReceiverInv

\* The end of a handler: it answers 200 only for a file that the session at
\* hand has as finished.
LEMMA RespondEnds ==
  ASSUME NEW u, NEW s \in R!Session \cup {R!NoSession}, R!Respond(u, s)
  PROVE  /\ SameGrant(s, session')
         /\ \E how \in {"200", "500"} :
              /\ upload' = R!Moved(u, how)
              /\ how = "200" => s # R!NoSession /\ s.files[upload[u].file] = "finished"
<1>1. CASE session' = s
  BY <1>1 DEF R!Respond, R!HasFile, SameGrant
<1>2. CASE session' # s
  <2>1. s \in R!Session
    BY <1>2 DEF R!Respond, R!Receiving
  <2>2. \E st \in R!SessionStatus : session' = [s EXCEPT !.status = st]
    BY <1>2 DEF R!Respond, R!SessionStatus
  <2>3. QED
    BY <2>1, <2>2, StatusFields DEF R!Respond, R!HasFile
<1>3. QED
  BY <1>1, <1>2

LEMMA CatchEnds ==
  ASSUME IInv, NEW u, upload[u].file \in File, R!Catch(u)
  PROVE  /\ SameGrant(session, session')
         /\ \E how \in {"500", "thrown"} : upload' = R!Moved(u, how)
<1> DEFINE f == upload[u].file
<1>1. R!Up
  BY DEF IInv, ReceiverShape, R!Up
<1>2. CASE session = R!NoSession
  <2>1. R!Respond(u, R!NoSession)
    BY <1>1, <1>2 DEF R!Catch, R!HasFile
  <2>2. QED
    BY <1>2, <2>1, RespondEnds
<1>3. CASE session # R!NoSession /\ R!HasFile(session, f)
  <2> DEFINE s == R!fileFinished(session, f, "failed")
  <2>1. R!Respond(u, s)
    BY <1>1, <1>3 DEF R!Catch
  <2>2. session \in R!Session
    BY <1>3 DEF IInv, ReceiverShape
  <2>3. s \in R!Session /\ SameGrant(session, s) /\ s.files[f] = "failed"
    BY <2>2, FileFields DEF R!FileStatus
  <2> HIDE DEF s
  <2>4. QED
    BY <2>1, <2>3, RespondEnds, SessionFields DEF SameGrant
<1>4. CASE session # R!NoSession /\ ~R!HasFile(session, f)
  <2>1. R!Throw(u)
    BY <1>1, <1>4 DEF R!Catch
  <2>2. QED
    BY <2>1, SessionSame DEF R!Throw
<1>5. QED
  BY <1>2, <1>3, <1>4

LEMMA UploadHandledInv ==
  ASSUME IInv, UploadHandled
  PROVE  /\ IInv' /\ UNCHANGED <<sent, granted>>
         /\ saved' = saved \/ \E f \in granted : saved' = saved \cup {<<"r", f>>}
<1>1. PICK t \in Task, f \in File : R!UploadStep(<<t, f>>)
  BY DEF UploadHandled
<1> DEFINE u == <<t, f>>
<1>2. UNCHANGED <<server, prepare, decision, granted, tokens, task, sent>>
      /\ pages' \in {pages, R!NoPages}
  BY <1>1 DEF UploadHandled, ReceiverOnly, senderVars, R!UploadStep,
     R!UploadSaved, R!UploadFailed, R!HistoryAdded, R!HistoryFails, R!DelayedClose,
     R!handlerVars, R!userVars
<1>3. upload[u].at # "idle" => upload[u].sid = "r" /\ upload[u].file = f /\ f \in granted
  BY DEF IInv, UploadsGranted
<1>4. ASSUME NEW how, upload[u].at # "idle", upload' = R!Moved(u, how)
      PROVE  \E v : /\ upload' = [upload EXCEPT ![<<t, f>>] = v]
                    /\ v.at = how /\ v.sid = "r" /\ v.file = f
  <2> DEFINE v == [at |-> how, sid |-> "r", file |-> f]
  <2>1. upload' = [upload EXCEPT ![<<t, f>>] = v]
    BY <1>3, <1>4 DEF R!Moved
  <2>2. v.at = how /\ v.sid = "r" /\ v.file = f
    OBVIOUS
  <2> HIDE DEF v
  <2>3. QED
    BY <2>1, <2>2
<1>6. CASE R!DelayedClose(u)
  <2>1. UNCHANGED <<upload, saved>> /\ (session' = session \/ session' = R!NoSession)
    BY <1>6 DEF R!DelayedClose, R!closeSession
  <2>2. SameGrant(session, session')
    BY <2>1, SessionSame DEF SameGrant
  <2>3. QED
    BY <1>2, <2>1, <2>2, SessionInv
<1>7. ASSUME R!Catch(u), upload[u].at # "idle",
             saved' = saved \/ saved' = saved \cup {<<"r", f>>}
      PROVE  IInv'
  <2>1. SameGrant(session, session') /\ \E how \in {"500", "thrown"} : upload' = R!Moved(u, how)
    BY <1>3, <1>7, CatchEnds
  <2>2. PICK v : /\ upload' = [upload EXCEPT ![<<t, f>>] = v]
                 /\ v.at \in {"500", "thrown"} /\ v.sid = "r" /\ v.file = f
    BY <1>4, <1>7, <2>1
  <2>3. QED
    BY <1>2, <1>3, <1>7, <2>1, <2>2, ReceiverInv
<1>8. CASE R!UploadSaved(u)
  <2>1. upload[u].at = "saving" /\ saved' = saved \cup {<<"r", f>>} /\ f \in granted
    BY <1>3, <1>8 DEF R!UploadSaved
  <2>2. CASE session' = session /\ upload' = R!Moved(u, "500")
    <3>1. PICK v : /\ upload' = [upload EXCEPT ![<<t, f>>] = v]
                   /\ v.at = "500" /\ v.sid = "r" /\ v.file = f
      BY <1>4, <2>1, <2>2
    <3>2. QED
      <4>1. SameGrant(session, session')
        BY <2>2, SessionSame
      <4>2. QED
        BY <1>2, <2>1, <3>1, <4>1, ReceiverInv
  <2>3. CASE /\ R!Receiving(session) /\ session' = R!fileFinished(session, f, "finished")
             /\ upload' = R!Moved(u, "history")
    <3>1. SameGrant(session, session')
      BY <2>3, FileFields DEF R!Receiving, IInv, ReceiverShape, R!FileStatus
    <3>2. \E v : /\ upload' = [upload EXCEPT ![<<t, f>>] = v]
                 /\ v.at = "history" /\ v.sid = "r" /\ v.file = f
      BY <1>4, <2>1, <2>3
    <3>3. QED
      BY <1>2, <2>1, <3>1, <3>2, ReceiverInv, ZenonT(40)
  <2>4. CASE R!Catch(u)
    BY <1>2, <1>7, <2>1, <2>4
  <2>5. upload[u].file = f
    BY <1>3, <2>1
  <2>6. IInv'
    BY <1>8, <2>2, <2>3, <2>4, <2>5 DEF R!UploadSaved
  <2>7. QED
    BY <1>2, <2>1, <2>6
<1>9. CASE R!UploadFailed(u) \/ R!HistoryFails(u)
  <2>1. upload[u].at # "idle" /\ saved' = saved /\ R!Catch(u)
    BY <1>9 DEF R!UploadFailed, R!HistoryFails
  <2>2. QED
    BY <1>2, <1>7, <2>1
<1>10. CASE R!HistoryAdded(u)
  <2>1. upload[u].at = "history" /\ saved' = saved /\ R!Respond(u, session)
    BY <1>10 DEF R!HistoryAdded, R!Up, IInv, ReceiverShape
  <2>2. session \in R!Session \cup {R!NoSession} /\ <<"r", f>> \in saved
    BY <2>1 DEF IInv, ReceiverShape, UploadsGranted
  <2>3. SameGrant(session, session') /\ \E how \in {"200", "500"} : upload' = R!Moved(u, how)
    BY <2>1, <2>2, RespondEnds
  <2>4. PICK v : /\ upload' = [upload EXCEPT ![<<t, f>>] = v]
                 /\ v.at \in {"200", "500"} /\ v.sid = "r" /\ v.file = f
    BY <1>4, <2>1, <2>3
  <2>5. QED
    BY <1>2, <1>3, <2>1, <2>2, <2>3, <2>4, ReceiverInv
<1>11. QED
  BY <1>1, <1>6, <1>8, <1>9, <1>10 DEF R!UploadStep

-----------------------------------------------------------------------------
\* Every step keeps the invariant and is a step of Delivery or a stutter.

LEMMA StoreStep ==
  ASSUME IInv, NEW f \in granted, saved' = saved \cup {<<"r", f>>}, UNCHANGED <<sent, granted>>
  PROVE  [D!Next]_D!vars
<1>1. f \in File
  BY DEF IInv, ReceiverShape
<1>2. StoredFiles' = StoredFiles \cup {f}
  BY <1>1 DEF StoredFiles
<1>3. CASE f \in StoredFiles
  BY <1>2, <1>3 DEF D!vars
<1>4. CASE f \notin StoredFiles
  BY <1>1, <1>2, <1>4 DEF D!Next, D!Store
<1>5. QED
  BY <1>3, <1>4

LEMMA StepRefines ==
  ASSUME IInv, [Next]_vars
  PROVE  IInv' /\ [D!Next]_D!vars
<1>1. ASSUME UNCHANGED <<sent, granted, saved>>
      PROVE  [D!Next]_D!vars
  BY <1>1 DEF D!vars, StoredFiles
<1>2. CASE \/ Request \/ RequestAnswered \/ RequestBroken \/ SendLoop \/ RetryFile
           \/ (\E t \in Task : UploadNotOk(t)) \/ SenderCancels \/ ReceiverCancelArrives
           \/ CancelLost \/ (S!CloseSession /\ SenderOnly)
  <2>1. IInv' /\ sent' = sent
    BY <1>2, RequestInv, AnsweredInv, LoopInv, RetryInv, UploadNotOkInv, SenderCancelInv
  <2>2. UNCHANGED <<granted, saved>>
    BY <1>2 DEF Request, RequestAnswered, RequestBroken, SendLoop, RetryFile, UploadNotOk,
       SenderCancels, ReceiverCancelArrives, CancelLost, SenderOnly, receiverVars
  <2>3. QED
    BY <1>1, <2>1, <2>2
<1>3. CASE \/ RequestArrives \/ SenderCancelArrives \/ ReceiverCancels
           \/ PageShown \/ (\E t \in Task : UploadArrives(t))
           \/ (R!CloseSession \/ R!ClosePage("r")) /\ ReceiverOnly /\ UNCHANGED granted
  BY <1>1, <1>3, ArrivesInv, PageShownInv, UploadArrivesInv, ReceiverCancelInv
<1>4. CASE SessionOpened \/ Decision
  <2>1. /\ IInv' /\ UNCHANGED <<sent, saved>>
        /\ granted' = granted \/ (granted = {} /\ granted' # {} /\ granted' \subseteq File)
    BY <1>4, OpenedInv, DecisionInv
  <2>2. CASE granted' = granted
    BY <1>1, <2>1, <2>2
  <2>3. CASE granted' # granted
    <3>1. StoredFiles' = StoredFiles
      BY <2>1 DEF StoredFiles
    <3>2. QED
      BY <2>1, <2>3, <3>1 DEF D!Next, D!Grant
  <2>4. QED
    BY <2>2, <2>3
<1>5. CASE UploadHandled
  BY <1>1, <1>5, UploadHandledInv, StoreStep
<1>6. ASSUME NEW t \in Task, UploadOk(t)
      PROVE  IInv' /\ [D!Next]_D!vars
  <2>1. PICK f \in File : f \in StoredFiles /\ sent' = sent \cup {f}
    BY <1>6, UploadOkInv
  <2>2. IInv' /\ UNCHANGED <<granted, saved>>
    BY <1>6, UploadOkInv
  <2>3. StoredFiles' = StoredFiles
    BY <2>2 DEF StoredFiles
  <2>4. CASE f \in sent
    BY <1>1, <2>1, <2>2, <2>4
  <2>5. CASE f \notin sent
    BY <2>1, <2>2, <2>3, <2>5 DEF D!Next, D!Report
  <2>6. QED
    BY <2>4, <2>5
<1>7. CASE UNCHANGED vars
  <2>1. UNCHANGED <<server, session, prepare, decision, pages, upload, granted, saved, tokens, task, sent>>
    BY <1>7 DEF vars, senderVars, receiverVars
  <2>2. QED
    BY <1>1, <2>1, SenderShapeKept, SenderInv DEF IInv, ReportedStored
<1>8. QED
  BY <1>2, <1>3, <1>4, <1>5, <1>6, <1>7 DEF Next, Network, PagesClosed

\* A transfer over HTTP implements Delivery, whatever is canceled, refused,
\* retried or lost: only what the receiver's user or quick save granted is
\* stored (_uploadHandler checks the token), and the sender counts a file as
\* sent only after the handler has put it on the disk and answered 200.
THEOREM TransferImplementsDelivery == Spec => ImplementsDelivery
<1>1. Init => D!Init
  BY DEF Init, S!Init, R!Init, D!Init, StoredFiles
<1>2. QED
  BY <1>1, InitInv, StepRefines, PTL DEF Spec, ImplementsDelivery, D!Spec

=============================================================================
