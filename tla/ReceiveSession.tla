--------------------------- MODULE ReceiveSession ---------------------------
(***************************************************************************)
(* The receiving side of a transfer over HTTP                              *)
(* (app/lib/provider/network/server/controller/receive_controller.dart).   *)
(*                                                                         *)
(* The server keeps at most one session.  Its handlers run on Dart's event *)
(* loop: everything between two awaits that really wait is one step, and   *)
(* the steps of concurrent requests, of the user and of timers interleave. *)
(* A decision of the user goes through the stream of the session that is   *)
(* there by then.  A handler that waits for it goes on within the same     *)
(* turn of the loop, so that the rest of that handler belongs to the step; *)
(* a handler that has not come to its wait yet finds it in the stream.     *)
(*                                                                         *)
(* The pages are Flutter's: a frame is drawn some time after the state it  *)
(* shows has changed.  The receive history is a list that no answer and no *)
(* property depends on: the waits for it are here, its entries are not.    *)
(* The progress that is displayed is left out.                             *)
(*                                                                         *)
(* A request identifier stands for one call of /prepare-upload and for the *)
(* session id that the call draws.  Senders draw a fresh id for every file *)
(* of every request, and tokens are fresh too: a token is identified with  *)
(* the session and the file it was issued for, and the page that a request *)
(* opens is identified with the request.                                   *)
(***************************************************************************)
EXTENDS Integers, FiniteSets

CONSTANTS
    Request,          \* calls of /prepare-upload
    Ip,               \* sender addresses
    IpOf,             \* the address each request comes from
    File,             \* file ids
    FilesOf,          \* the files each request announces
    Messages,         \* the requests that carry just a text message
    V1,               \* the requests of senders that speak protocol 1.0
    Upload,           \* calls of /upload that get past the checks
    PinSet,           \* whether a receive PIN is set
    QuickSave,        \* the values quick save may have for a sender
    MAX_ATTEMPTS,     \* wrong PINs per address
    MaxRestarts       \* bound of the model: how often the server is stopped

ASSUME ReceiveAssumption ==
    /\ IpOf \in [Request -> Ip]
    /\ FilesOf \in [Request -> (SUBSET File) \ {{}}]
    /\ \A r, q \in Request : r # q => FilesOf[r] \cap FilesOf[q] = {}
    /\ Messages \subseteq Request
    /\ V1 \subseteq Request
    /\ PinSet \in BOOLEAN
    /\ QuickSave \subseteq BOOLEAN
    /\ MAX_ATTEMPTS \in Nat \ {0}
    /\ MaxRestarts \in Nat

VARIABLES
    server,        \* the ServerState: "on", "stopping", or null ("off")
    restarts,      \* how often the server was stopped
    session,       \* ServerState.session
    pin_attempts,  \* ServerState.pinAttempts
    prepare,       \* where each _prepareUploadHandler is, or its answer
    decision,      \* the decision in the stream of each request's session
    pages,         \* what the ReceivePage of each request shows
    selected,      \* selectedReceivingFilesProvider: the files picked
    upload,        \* where each _uploadHandler is
    closing,       \* uploads whose delayed closeSession is still to run
    saved          \* history variable: the files that are on the disk

userVars    == <<decision, pages, selected>>
handlerVars == <<prepare, upload, closing>>
vars == <<server, restarts, session, pin_attempts, userVars, handlerVars, saved>>

------------------------------------------------------------------------------
\* Sessions.

FileStatus    == {"queue", "skipped", "sending", "failed", "finished"}
SessionStatus == {"waiting", "sending", "finished", "finishedWithErrors",
                  "canceledBySender"}

NoSession == [id |-> "none"]

\* `open` is whether responseHandler is set and not closed, `by` the page on
\* which the session was accepted (history; its own page until then).
Session ==
    [id : Request, status : SessionStatus, files : [File -> FileStatus \cup {"absent"}],
     tokens : SUBSET File, open : BOOLEAN, by : Request]

NewSession(r) ==
    [id |-> r, status |-> "waiting",
     files |-> [f \in File |-> IF f \in FilesOf[r] THEN "queue" ELSE "absent"],
     tokens |-> {}, open |-> TRUE, by |-> r]

HasFile(s, f) == s # NoSession /\ s.files[f] # "absent"

AcceptedStillOpen(s, selection, page) ==                              \* mutant
    [s EXCEPT !.status = "sending", !.tokens = {f \in selection : s.files[f] # "absent"},
              !.by = page]

\* What is done with the user's selection, or with all files by quick save.
\* The session is the one that is there, the selection may be of another.
Accepted(s, selection, page) ==
    [s EXCEPT !.status = "sending",
              !.files = [f \in File |-> IF s.files[f] = "absent" THEN "absent"
                                        ELSE IF f \in selection THEN "queue"
                                        ELSE "skipped"],
              !.tokens = {f \in selection : s.files[f] # "absent"},
              !.open = FALSE,
              !.by = page]

allowedStates == {"sending", "finishedWithErrors"}
Receiving(s) == s # NoSession /\ s.status \in allowedStates
isFinishedOrSending(s) ==                                             \* mutant
    \A f \in File : s.files[f] # "queue"
isFinishedOrError(s) ==
    \A f \in File : s.files[f] \in {"absent", "skipped", "failed", "finished"}

Up == server # "off"

------------------------------------------------------------------------------
Init ==
    /\ server = "on"
    /\ restarts = 0
    /\ session = NoSession
    /\ pin_attempts = [ip \in Ip |-> 0]
    /\ prepare = [r \in Request |-> "idle"]
    /\ decision = [r \in Request |-> {}]
    /\ pages = [r \in Request |-> "none"]
    /\ selected = {}
    /\ upload = [u \in Upload |-> [at |-> "idle"]]
    /\ closing = {}
    /\ saved = {}

closeSession == session' = NoSession

------------------------------------------------------------------------------
\* _prepareUploadHandler.

Answer(r, code) == prepare' = [prepare EXCEPT ![r] = code]

LockedLate(ip) == PinSet /\ pin_attempts[ip] > MAX_ATTEMPTS            \* mutant
Locked(ip) == PinSet /\ pin_attempts[ip] >= MAX_ATTEMPTS

\* The check for a running session; then checkPin.
PrepareReceived(r) ==
    LET ip == IpOf[r] IN
    /\ server = "on"
    /\ prepare[r] = "idle"
    /\ \/ /\ session # NoSession
          /\ Answer(r, "409")
          /\ UNCHANGED pin_attempts
       \/ /\ session = NoSession
          /\ Locked(ip)
          /\ Answer(r, "429")
          /\ UNCHANGED pin_attempts
       \/ /\ session = NoSession       \* a wrong PIN: after a 401 the
          /\ PinSet /\ ~Locked(ip)     \* sender asks its user again (an
                                       \* empty one is not counted at all)
          /\ pin_attempts' = [pin_attempts EXCEPT ![ip] = @ + 1]
          /\ Answer(r, IF pin_attempts[ip] = MAX_ATTEMPTS - 1 THEN "429" ELSE "idle")
       \/ /\ session = NoSession
          /\ ~Locked(ip)
          /\ Answer(r, "checked")
          /\ UNCHANGED pin_attempts
    /\ UNCHANGED <<server, restarts, session, userVars, upload, closing, saved>>

\* The body cannot be read, is malformed or announces no file.
PrepareMalformed(r) ==
    /\ prepare[r] = "checked"
    /\ Answer(r, "400")
    /\ UNCHANGED <<server, restarts, session, pin_attempts, userVars, upload, closing,
                   saved>>

\* After the awaits (body, directories) the session is stored, whatever is
\* there by now.  Quick save goes on at once, and without a state the handler
\* throws: no answer is ever sent.
OpenSession(r, quick) ==
    /\ prepare[r] = "checked"
    /\ \/ /\ Up
          /\ quick
          /\ r \notin Messages
          /\ session' = Accepted(NewSession(r), FilesOf[r], r)
          /\ Answer(r, "200")
       \/ /\ Up
          /\ ~quick \/ r \in Messages
          /\ session' = NewSession(r)
          /\ Answer(r, "stored")
       \/ /\ ~Up
          /\ Answer(r, "thrown")
          /\ UNCHANGED session
    /\ UNCHANGED <<server, restarts, pin_attempts, userVars, upload, closing, saved>>

\* The handler after it has got decision d, which is about the session that is
\* there by now.
Concluded(r, d) ==
    \/ /\ ~Up
       /\ Answer(r, "thrown")
       /\ UNCHANGED session
    \/ /\ Up
       /\ session = NoSession
       /\ Answer(r, "500")
       /\ UNCHANGED session
    \/ /\ session # NoSession
       /\ d.accept => d.files = {}
       /\ closeSession
       /\ Answer(r, IF d.accept THEN "204" ELSE "403")
    \/ /\ session # NoSession
       /\ d.accept /\ d.files # {}
       /\ session' = Accepted(session, d.files, d.page)
       /\ Answer(r, "200")

\* The page is pushed, and the handler waits unless its session was decided on.
PushPage(r, page) ==
    /\ pages' = [pages EXCEPT ![r] = page]
    /\ \/ /\ decision[r] = {}
          /\ Answer(r, "waiting")
          /\ UNCHANGED <<decision, session>>
       \/ /\ decision' = [decision EXCEPT ![r] = {}]
          /\ \E d \in decision[r] : Concluded(r, d)

\* The handler ends between its session and its page: nobody catches the
\* exception, no answer is ever sent, and the session stays.
PrepareThrows(r) ==
    /\ Answer(r, "thrown")
    /\ UNCHANGED <<session, decision, pages>>

\* The calls of windowManager end (or fail).  The page is for a message if the
\* session that is there by now is one.
WindowShown(r) ==
    /\ prepare[r] = "stored"
    /\ \/ PrepareThrows(r)
       \/ /\ Up
          /\ session # NoSession => session.id \notin Messages
          /\ PushPage(r, "blank")
       \/ /\ session # NoSession
          /\ session.id \in Messages
          /\ Answer(r, "noting")
          /\ UNCHANGED <<session, decision, pages>>
    /\ UNCHANGED <<server, restarts, pin_attempts, selected, upload, closing, saved>>

\* The message is in the history, or cannot be written there.
MessageNoted(r) ==
    /\ prepare[r] = "noting"
    /\ PushPage(r, "unseen") \/ PrepareThrows(r)
    /\ UNCHANGED <<server, restarts, pin_attempts, selected, upload, closing, saved>>

------------------------------------------------------------------------------
\* ReceivePage.  Every page shows the session that is there: it is blank
\* without one, unless it has a message.

NoPages == [r \in Request |-> "none"]
PageClosed(p) == pages' = [pages EXCEPT ![p] = "none"]

FirstFrameKeepsSelection(p) ==                                        \* mutant
    /\ pages[p] \in {"blank", "unseen"}
    /\ pages[p] = "blank" => session # NoSession
    /\ pages' = [pages EXCEPT ![p] = IF @ = "blank" THEN "files" ELSE "message"]
    /\ selected' = IF selected = {} THEN {f \in File : HasFile(session, f)} ELSE selected
    /\ UNCHANGED <<server, restarts, session, pin_attempts, decision, handlerVars,
                   saved>>

\* The first frame selects all files of the session at hand, in the selection
\* that all pages share.
FirstFrame(p) ==
    /\ \/ /\ pages[p] = "blank"
          /\ session # NoSession
          /\ pages' = [pages EXCEPT ![p] = "files"]
       \/ /\ pages[p] = "unseen"
          /\ pages' = [pages EXCEPT ![p] = "message"]
    /\ selected' = {f \in File : HasFile(session, f)}
    /\ UNCHANGED <<server, restarts, session, pin_attempts, decision, handlerVars,
                   saved>>

TurnsBlank(p) ==
    /\ pages[p] = "files"
    /\ session = NoSession
    /\ pages' = [pages EXCEPT ![p] = "blank"]
    /\ UNCHANGED <<server, restarts, session, pin_attempts, decision, selected,
                   handlerVars, saved>>

\* acceptFileRequest and declineFileRequest, up to the answer of the handler
\* if it waits.
Decide(d) ==
    \/ /\ session # NoSession
       /\ session.open
       /\ prepare[session.id] = "waiting"
       /\ Concluded(session.id, d)
       /\ UNCHANGED decision
    \/ /\ session # NoSession
       /\ session.open
       /\ prepare[session.id] # "waiting"
       /\ session' = [session EXCEPT !.open = FALSE]
       /\ decision' = [decision EXCEPT ![session.id] = {d}]
       /\ UNCHANGED prepare
    \/ /\ session # NoSession => ~session.open
       /\ UNCHANGED <<session, decision, prepare>>

\* Accept, after the user has picked files on ReceiveOptionsPage.
AcceptFiles(p, files) ==
    /\ pages[p] = "files"
    /\ session # NoSession
    /\ session.status # "canceledBySender"
    /\ files # {}
    /\ files \subseteq selected \cup {f \in File : HasFile(session, f)}
    /\ selected' = files
    /\ PageClosed(p)
    /\ Decide([accept |-> TRUE, files |-> files, page |-> p])
    /\ UNCHANGED <<server, restarts, pin_attempts, upload, closing, saved>>

\* Closing a message selects nothing.
AcceptMessage(p) ==
    /\ pages[p] = "message"
    /\ PageClosed(p)
    /\ Decide([accept |-> TRUE, files |-> {}, page |-> p])
    /\ UNCHANGED <<server, restarts, pin_attempts, selected, upload, closing, saved>>

\* The button, or the page is left in another way.
Decline(p) ==
    /\ \/ /\ pages[p] \in {"files", "message"}
          /\ Decide([accept |-> FALSE, files |-> {}, page |-> p])
       \/ /\ pages[p] = "blank"
          /\ UNCHANGED <<session, decision, prepare>>
    /\ PageClosed(p)
    /\ UNCHANGED <<server, restarts, pin_attempts, selected, upload, closing, saved>>

\* After a cancellation by the sender.  A handler that still waits for the
\* decision waits forever.
ClosePage(p) ==
    /\ pages[p] = "files"
    /\ session # NoSession
    /\ session.status = "canceledBySender"
    /\ closeSession
    /\ PageClosed(p)
    /\ UNCHANGED <<server, restarts, pin_attempts, decision, selected, handlerVars, saved>>

\* ProgressPage, of this session, of an earlier one or of one that sends.  It
\* takes all pages with it.
CloseSession ==
    /\ session # NoSession
    /\ session.status # "sending"
    /\ closeSession
    /\ pages' = NoPages
    /\ UNCHANGED <<server, restarts, pin_attempts, decision, selected, handlerVars, saved>>

\* cancelSession: the sender is notified, without waiting for its answer.
CancelSession ==
    /\ session # NoSession
    /\ session.status = "sending"
    /\ closeSession
    /\ pages' = NoPages
    /\ UNCHANGED <<server, restarts, pin_attempts, decision, selected, handlerVars, saved>>

------------------------------------------------------------------------------
\* _uploadHandler.

\* The answer to an upload for file f with a token of session r, or "go".
UploadVerdict(ip, r, f) ==
    IF session = NoSession \/ (ip = IpOf[session.id] /\ ~Receiving(session))
      THEN "409"
    ELSE IF ip # IpOf[session.id] \/ session.id # r \/ f \notin session.tokens
      THEN "403"
    ELSE "go"

\* All checks and the change of state that marks the file, without an await.
UploadBegin(u, ip, r, f) ==
    /\ server = "on"
    /\ upload[u].at = "idle"
    /\ UploadVerdict(ip, r, f) = "go"
    /\ session' = [session EXCEPT !.files[f] = "sending", !.status = "sending"]
    /\ upload' = [upload EXCEPT ![u] = [at |-> "saving", sid |-> r, file |-> f]]
    /\ UNCHANGED <<server, restarts, pin_attempts, userVars, prepare, closing, saved>>

\* Map.update throws when the session at hand does not have the file.
alwaysFinished(s, f, status) == [s EXCEPT !.files[f] = "finished"]     \* mutant
fileFinished(s, f, status) == [s EXCEPT !.files[f] = status]

Moved(u, how) == [upload EXCEPT ![u] = [at |-> how, sid |-> @.sid, file |-> @.file]]

\* What is left of the handler once the file's status is stored in s: the
\* session ends with its last file, and quick save closes it a little later.
Respond(u, s) ==
    LET f == upload[u].file
        done == Receiving(s) /\ isFinishedOrError(s)
    IN
    /\ session' = IF done THEN [s EXCEPT !.status =
                                  IF \E g \in File : s.files[g] = "failed"
                                    THEN "finishedWithErrors" ELSE "finished"]
                          ELSE s
    /\ \E quick \in QuickSave :
         closing' = IF done /\ quick THEN closing \cup {u} ELSE closing
    /\ upload' = Moved(u, IF HasFile(s, f) /\ s.files[f] = "finished"
                            THEN "200" ELSE "500")

\* The handler throws: no answer is ever sent.
Throw(u) ==
    /\ upload' = Moved(u, "thrown")
    /\ UNCHANGED <<session, closing>>

\* The catch block and what follows it.
Catch(u) ==
    LET f == upload[u].file IN
    \/ /\ ~Up
       /\ Throw(u)
    \/ /\ Up
       /\ session = NoSession
       /\ Respond(u, NoSession)
    \/ /\ Up
       /\ HasFile(session, f)
       /\ Respond(u, fileFinished(session, f, "failed"))
    \/ /\ Up
       /\ session # NoSession
       /\ ~HasFile(session, f)
       /\ Throw(u)

UploadSavedAnywhere(u) ==                                             \* mutant
    LET f == upload[u].file IN
    /\ upload[u].at = "saving"
    /\ saved' = saved \cup {<<upload[u].sid, f>>}
    /\ Up /\ Receiving(session)
    /\ session' = fileFinished(session, f, "finished")
    /\ upload' = Moved(u, "history")
    /\ UNCHANGED <<server, restarts, pin_attempts, userVars, prepare, closing>>

\* saveFile returns.
UploadSaved(u) ==
    LET f == upload[u].file IN
    /\ upload[u].at = "saving"
    /\ saved' = saved \cup {<<upload[u].sid, f>>}
    /\ \/ /\ Up
          /\ ~Receiving(session)
          /\ upload' = Moved(u, "500")
          /\ UNCHANGED <<session, closing>>
       \/ /\ Up
          /\ Receiving(session)
          /\ HasFile(session, f)
          /\ session' = fileFinished(session, f, "finished")
          /\ upload' = Moved(u, "history")
          /\ UNCHANGED closing
       \/ /\ Up => Receiving(session) /\ ~HasFile(session, f)
          /\ Catch(u)
    /\ UNCHANGED <<server, restarts, pin_attempts, userVars, prepare>>

\* saveFile throws.
UploadFailed(u) ==
    /\ upload[u].at = "saving"
    /\ Catch(u)
    /\ UNCHANGED <<server, restarts, pin_attempts, userVars, prepare, saved>>

\* AddHistoryEntryAction ends.
HistoryAdded(u) ==
    /\ upload[u].at = "history"
    /\ \/ /\ Up
          /\ Respond(u, session)
       \/ /\ ~Up
          /\ Throw(u)
    /\ UNCHANGED <<server, restarts, pin_attempts, userVars, prepare, saved>>

\* The history entry cannot be written: the catch block is about the whole.
HistoryFails(u) ==
    /\ upload[u].at = "history"
    /\ Catch(u)
    /\ UNCHANGED <<server, restarts, pin_attempts, userVars, prepare, saved>>

\* Future.delayed: closes the session that is there by then, and the pages.
DelayedClose(u) ==
    /\ u \in closing
    /\ closing' = closing \ {u}
    /\ \/ /\ Up
          /\ session # NoSession
          /\ closeSession
       \/ /\ ~Up \/ session = NoSession
          /\ UNCHANGED session
    /\ pages' = NoPages
    /\ UNCHANGED <<server, restarts, pin_attempts, decision, selected, prepare, upload,
                   saved>>

------------------------------------------------------------------------------
\* _cancelHandler while a session exists: the id is not asked for while the
\* user has not decided yet, and never by version 1.

CancelVerdictWaitingOnly(ip, r) ==                                    \* mutant
    IF /\ session # NoSession
       /\ IpOf[session.id] = ip
       /\ session.status = "waiting"
      THEN "200" ELSE "403"

CancelVerdict(ip, r) ==
    IF /\ session # NoSession
       /\ IpOf[session.id] = ip
       /\ session.status \in {"waiting", "sending"}
       /\ session.status = "sending" => r = session.id \/ session.id \in V1
      THEN "200" ELSE "403"

CancelReceived(ip, r) ==
    /\ server = "on"
    /\ CancelVerdict(ip, r) = "200"
    /\ session' = [session EXCEPT !.status = "canceledBySender"]
    /\ UNCHANGED <<server, restarts, pin_attempts, userVars, handlerVars, saved>>

------------------------------------------------------------------------------
\* ServerService.

StopServer ==
    /\ server = "on"
    /\ restarts < MaxRestarts
    /\ server' = "stopping"
    /\ restarts' = restarts + 1
    /\ UNCHANGED <<session, pin_attempts, userVars, handlerVars, saved>>

ServerClosed ==
    /\ server = "stopping"
    /\ server' = "off"
    /\ session' = NoSession
    /\ pin_attempts' = [ip \in Ip |-> 0]
    /\ UNCHANGED <<restarts, userVars, handlerVars, saved>>

StartServer ==
    /\ server = "off"
    /\ server' = "on"
    /\ UNCHANGED <<restarts, session, pin_attempts, userVars, handlerVars, saved>>

Prepare(r) ==
    \/ PrepareReceived(r) \/ PrepareMalformed(r)
    \/ \E quick \in QuickSave : OpenSession(r, quick)
    \/ WindowShown(r) \/ MessageNoted(r)

Page(p) ==
    \/ FirstFrame(p) \/ TurnsBlank(p)
    \/ \E files \in SUBSET File : AcceptFiles(p, files)
    \/ AcceptMessage(p) \/ Decline(p) \/ ClosePage(p)

UploadStep(u) ==
    \/ UploadSaved(u) \/ UploadFailed(u)
    \/ HistoryAdded(u) \/ HistoryFails(u) \/ DelayedClose(u)

Next ==
    \/ \E r \in Request : Prepare(r) \/ Page(r)
    \/ CloseSession \/ CancelSession
    \/ \E u \in Upload, ip \in Ip, r \in Request, f \in File : UploadBegin(u, ip, r, f)
    \/ \E u \in Upload : UploadStep(u)
    \/ \E ip \in Ip, r \in Request : CancelReceived(ip, r)
    \/ StopServer \/ ServerClosed \/ StartServer

Spec == Init /\ [][Next]_vars

------------------------------------------------------------------------------
\* Properties.

PrepareState == {"idle", "checked", "stored", "noting", "waiting", "thrown",
                 "200", "204", "400", "403", "409", "429", "500"}

UserDecision == [accept : BOOLEAN, files : SUBSET File, page : Request]

UploadState ==
    [at : {"idle"}]
    \cup [at : {"saving", "history", "200", "500", "thrown"}, sid : Request, file : File]

\* The type of every variable; an address never has more wrong PINs counted
\* than MAX_ATTEMPTS.
TypeOK ==
    /\ server \in {"on", "stopping", "off"}
    /\ restarts \in 0 .. MaxRestarts
    /\ session \in Session \cup {NoSession}
    /\ ~Up => session = NoSession
    /\ pin_attempts \in [Ip -> 0 .. MAX_ATTEMPTS]
    /\ prepare \in [Request -> PrepareState]
    /\ decision \in [Request -> SUBSET UserDecision]
    /\ pages \in [Request -> {"none", "blank", "files", "unseen", "message"}]
    /\ selected \subseteq File
    /\ upload \in [Upload -> UploadState]
    /\ closing \subseteq Upload
    /\ saved \subseteq Request \X File

\* A file that is shown as finished, and every file with a token of a session
\* that ended without errors, is on the disk and was saved for this very
\* session: uploads of an earlier session that are still running when the
\* next one is accepted, and repeated uploads of one file, do not count
\* for it.
FinishedWasSaved ==
    session # NoSession =>
      \A f \in File :
        \/ session.files[f] = "finished"
        \/ session.status = "finished" /\ f \in session.tokens
        => <<session.id, f>> \in saved

\* A session in which files are being sent always has something to wait for:
\* a file the sender has not started, or a running upload of this session.
\* It is never left in "sending" by its last upload, in whatever order the
\* uploads end, fail and write their history entry; it would block every
\* other sender.  The one exception is a session that was accepted on the page
\* of another request, with a selection that has none of its files.
ActiveSessionHasWork ==
    session # NoSession /\ session.status = "sending" =>
      \/ \E f \in File : session.files[f] = "queue"
      \/ \E u \in Upload : upload[u].at \in {"saving", "history"}
                            /\ upload[u].sid = session.id
      \/ session.by # session.id /\ session.tokens = {}

\* What the sender is told was received is on the disk, although the answer
\* is taken from the session as it is after the awaits.
AnsweredOkIsStored ==
    \A u \in Upload :
      upload[u].at = "200" => <<upload[u].sid, upload[u].file>> \in saved

\* A decision has a handler to go to: the session whose responseHandler still
\* takes one was never accepted, and its /prepare-upload waits for the decision
\* or is on its way there, through cancellations, replaced sessions, decisions
\* on other pages and restarts.  The one exception is a handler that has died
\* on that way; only its session's end can help the sender then.
DecisionHasHandler ==
    session # NoSession /\ session.open =>
      /\ prepare[session.id] \in {"stored", "noting", "waiting", "thrown"}
      /\ session.status \in {"waiting", "canceledBySender"}
      /\ session.tokens = {}
      /\ decision[session.id] = {}

\* An upload that outlives its session changes no file of the next one.
StaleUploadsHarmless ==
    [][\A u \in Upload :
         upload[u].at \in {"saving", "history"} /\ upload'[u] # upload[u]
         /\ session # NoSession /\ session.id # upload[u].sid
           => session' # NoSession /\ session'.id = session.id
              /\ session'.files = session.files]_vars

\* receive_controller.dart: "block incoming requests when we are already in a
\* session": a session is never replaced by the one of another request.
SessionNotReplaced ==
    [][session # NoSession /\ session' # NoSession => session'.id = session.id]_vars

==============================================================================
