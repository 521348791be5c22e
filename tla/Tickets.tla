------------------------------- MODULE Tickets -------------------------------
(***************************************************************************)
(* Support tickets: their messages bring attachments, whose rows are in    *)
(* the database and whose bytes are files on disk.                         *)
(*                                                                         *)
(*   router/tickets_api_routes.go, admin_tickets_api_routes.go  (handlers) *)
(*   internal/store/tickets.go, internal/tickets/storage.go                *)
(*   internal/server/app.go                             (the cleanup loop) *)
(*                                                                         *)
(* A request saves its files one by one, then inserts message and rows in  *)
(* one transaction, and removes the files again if that fails.  Messages   *)
(* and what is in a file are left out.                                     *)
(***************************************************************************)
EXTENDS Naturals, FiniteSets

CONSTANTS
    Askers,     \* users with tickets
    Uploads,    \* requests that bring a message
    MaxTickets, \* tickets ever opened (a bound)
    MaxFiles,   \* files ever saved (a bound)
    BatchSize   \* attachments the cleanup loop takes at a time

ASSUME BatchAssumption ==
    BatchSize \in Nat \ {0} /\ MaxTickets \in Nat \ {0} /\ MaxFiles \in Nat \ {0}

Nobody == "nobody"
TicketIds == 1..MaxTickets
Files == 1..MaxFiles

VARIABLES
    tickets,    \* the row of each id
    attachments,\* ticket_attachments: the row of each file
    disk,       \* the files in the attachments directory
    lastFile,   \* names given out so far (random tokens)
    posting,    \* where each request is
    batch,      \* the cleanup loop: what it is about to remove and to forget
    adrift,     \* history: files a crash or a failed removal has left behind
    inDoubt,    \* history: files of a commit that was made and reported as failed
    got         \* history: what the last step downloaded, <<user, file>>
ticketVars == <<tickets, attachments, disk, lastFile, posting, batch, adrift, inDoubt, got>>

TicketRows == [state: {"none", "open", "closed"}, owner: Askers \cup {Nobody}]
NoTicket == [state |-> "none", owner |-> Nobody]
\* `dated`: a row of an earlier release, which stored an expiry date.
AttachmentRows == [ticket: TicketIds \cup {0}, state: {"none", "kept", "dated", "due"}]
NoAttachment == [ticket |-> 0, state |-> "none"]
\* `want`: at most two files come with a message (a bound).
PostRows == [op: {"idle", "save", "commit", "undo"}, user: Askers \cup {Nobody},
             ticket: TicketIds \cup {0}, want: 0..2, files: SUBSET Files]
NoPost == [op |-> "idle", user |-> Nobody, ticket |-> 0, want |-> 0, files |-> {}]
NoBatch == [op |-> "idle", files |-> {}]

TicketsTypeOK ==
    /\ tickets \in [TicketIds -> TicketRows]
    /\ attachments \in [Files -> AttachmentRows]
    /\ disk \subseteq Files /\ adrift \subseteq Files /\ inDoubt \subseteq Files
    /\ lastFile \in 0..MaxFiles
    /\ posting \in [Uploads -> PostRows]
    /\ batch \in [op: {"idle", "remove", "forget"}, files: SUBSET Files]
    /\ got \subseteq Askers \X Files

\* One ticket with an attachment of an earlier release.
TicketsInit ==
    /\ \E u \in Askers : tickets =
            [t \in TicketIds |-> IF t = 1 THEN [state |-> "open", owner |-> u] ELSE NoTicket]
    /\ attachments = [f \in Files |->
            IF f = 1 THEN [ticket |-> 1, state |-> "dated"] ELSE NoAttachment]
    /\ disk = {1} /\ lastFile = 1
    /\ posting = [r \in Uploads |-> NoPost] /\ batch = NoBatch
    /\ adrift = {} /\ inDoubt = {} /\ got = {}

-----------------------------------------------------------------------------
(* Messages with attachments.                                              *)

At(r, op) == posting[r].op = op
\* GetTicketByIDForUser
Owns(u, t) == tickets[t].state # "none" /\ tickets[t].owner = u
Begins(r, u, t, n) ==
    posting' = [posting EXCEPT ![r] = [op |-> "save", user |-> u, ticket |-> t, want |-> n, files |-> {}]]
Ends(r) == posting' = [posting EXCEPT ![r] = NoPost]
room == <<batch, inDoubt>>

\* ticketCreateHandler, ticketReplyHandler, adminTicketReplyHandler.
CreateTicket(r, u, n) ==
    /\ At(r, "idle") /\ Begins(r, u, 0, n)
    /\ UNCHANGED <<tickets, attachments, disk, lastFile, adrift, room>>
Reply(r, u, t, n) ==
    /\ At(r, "idle") /\ Owns(u, t) /\ tickets[t].state = "open" /\ Begins(r, u, t, n)
    /\ UNCHANGED <<tickets, attachments, disk, lastFile, adrift, room>>
AdminReply(r, t, n) ==
    /\ At(r, "idle") /\ tickets[t].state = "open" /\ Begins(r, Nobody, t, n)
    /\ UNCHANGED <<tickets, attachments, disk, lastFile, adrift, room>>

\* saveTicketAttachments
SaveFile(r) ==
    LET w == posting[r]  f == lastFile + 1
    IN  /\ At(r, "save") /\ Cardinality(w.files) < w.want /\ f \in Files
        /\ disk' = disk \cup {f} /\ lastFile' = f
        /\ posting' = [posting EXCEPT ![r].files = @ \cup {f}]
        /\ UNCHANGED <<tickets, attachments, adrift, room>>
AllSaved(r) ==
    /\ At(r, "save") /\ Cardinality(posting[r].files) = posting[r].want
    /\ posting' = [posting EXCEPT ![r].op = "commit"]
    /\ UNCHANGED <<tickets, attachments, disk, lastFile, adrift, room>>
SaveFails(r) ==
    /\ At(r, "save") /\ Cardinality(posting[r].files) < posting[r].want
    /\ posting' = [posting EXCEPT ![r].op = "undo"]
    /\ UNCHANGED <<tickets, attachments, disk, lastFile, adrift, room>>

\* The transaction of CreateTicketWithMessageAndAttachments, for ticket t.
InsertTicket(r, t) ==
    /\ tickets[t].state = "none" /\ \A s \in 1..(t - 1) : tickets[s].state # "none"
    /\ tickets' = [tickets EXCEPT ![t] = [state |-> "open", owner |-> posting[r].user]]
\* Message and attachments; the ticket's state is not looked at again.
AddMessage(r, t) ==
    attachments' = [f \in Files |->
        IF f \in posting[r].files THEN [ticket |-> t, state |-> "kept"] ELSE attachments[f]]
Written(r) ==
    IF posting[r].ticket = 0
    THEN \E t \in TicketIds : InsertTicket(r, t) /\ AddMessage(r, t)
    ELSE AddMessage(r, posting[r].ticket) /\ UNCHANGED tickets
Commit(r) ==
    /\ At(r, "commit") /\ Written(r) /\ Ends(r)
    /\ UNCHANGED <<disk, lastFile, adrift, room>>
\* Commit's answer is an error although the database has committed.
CommitInDoubt(r) ==
    /\ At(r, "commit") /\ Written(r)
    /\ posting' = [posting EXCEPT ![r].op = "undo"]
    /\ inDoubt' = inDoubt \cup posting[r].files
    /\ UNCHANGED <<disk, lastFile, adrift, batch>>
CommitFails(r) ==
    /\ At(r, "commit")
    /\ posting' = [posting EXCEPT ![r].op = "undo"]
    /\ UNCHANGED <<tickets, attachments, disk, lastFile, adrift, room>>

\* A deleteSavedAttachments that is forgotten.
KeepSaved(r) ==
    /\ At(r, "undo") /\ Ends(r)
    /\ UNCHANGED <<tickets, attachments, disk, lastFile, adrift, room>>

\* deleteSavedAttachments: a file that cannot be removed stays.
DeleteSaved(r) ==
    /\ At(r, "undo") /\ Ends(r)
    /\ \E stay \in SUBSET posting[r].files :
        disk' = (disk \ posting[r].files) \cup stay /\ adrift' = adrift \cup stay
    /\ UNCHANGED <<tickets, attachments, lastFile, room>>

-----------------------------------------------------------------------------
(* Closing, downloading.                                                   *)

CloseTicketRow(t) == tickets' = [tickets EXCEPT ![t].state = "closed"]
CloseTicket(t) ==
    /\ tickets[t].state # "none" /\ CloseTicketRow(t)
    /\ UNCHANGED <<attachments, disk, lastFile, posting, adrift, room>>
ReopenTicketRow(t) == tickets' = [tickets EXCEPT ![t].state = "open"]
ReopenTicket(t) ==
    /\ tickets[t].state # "none" /\ ReopenTicketRow(t)
    /\ UNCHANGED <<attachments, disk, lastFile, posting, adrift, room>>

Servable(t, f) == attachments[f].ticket = t /\ attachments[f].state # "due" /\ f \in disk
Download(u, t, f) ==
    /\ Owns(u, t) /\ Servable(t, f)
    /\ got' = {<<u, f>>}
    /\ UNCHANGED <<tickets, attachments, disk, lastFile, posting, batch, adrift, inDoubt>>

-----------------------------------------------------------------------------
(* Cleaning up.                                                            *)

Due == {f \in Files : attachments[f].state = "due"}
ComesDue(f) ==
    /\ attachments[f].state = "dated"
    /\ attachments' = [attachments EXCEPT ![f].state = "due"]
    /\ UNCHANGED <<tickets, disk, lastFile, posting, adrift, room>>
\* ListExpiredTicketAttachments
ListExpired ==
    /\ batch.op = "idle" /\ Due # {}
    /\ \E fs \in SUBSET Due :
        /\ Cardinality(fs) = BatchSize \/ (fs = Due /\ Cardinality(fs) < BatchSize)
        /\ batch' = [op |-> "remove", files |-> fs]
    /\ UNCHANGED <<tickets, attachments, disk, lastFile, posting, adrift, inDoubt>>
RemoveExpired ==
    /\ batch.op = "remove" /\ batch' = [batch EXCEPT !.op = "forget"]
    /\ \E stay \in SUBSET (batch.files \cap disk) :
        disk' = (disk \ batch.files) \cup stay /\ adrift' = adrift \cup stay
    /\ UNCHANGED <<tickets, attachments, lastFile, posting, inDoubt>>
\* DeleteTicketAttachmentsByIDs; its error is dropped and the rows are listed again.
ForgetExpired ==
    /\ batch.op = "forget" /\ batch' = NoBatch
    /\ \/ attachments' = [f \in Files |->
            IF f \in batch.files THEN NoAttachment ELSE attachments[f]]
       \/ UNCHANGED attachments
    /\ UNCHANGED <<tickets, disk, lastFile, posting, adrift, inDoubt>>

\* The process ends and another starts.
CrashTickets ==
    /\ batch # NoBatch \/ \E r \in Uploads : ~At(r, "idle")
    /\ posting' = [r \in Uploads |-> NoPost] /\ batch' = NoBatch
    /\ adrift' = adrift \cup UNION {posting[r].files : r \in Uploads}
    /\ UNCHANGED <<tickets, attachments, disk, lastFile, inDoubt>>

TicketsBegin(r) ==
    /\ got' = {}
    /\ \E n \in 0..2 :
        \/ \E u \in Askers : CreateTicket(r, u, n) \/ \E t \in TicketIds : Reply(r, u, t, n)
        \/ \E t \in TicketIds : AdminReply(r, t, n)
TicketsGoOn ==
    \/ \E u \in Askers, t \in TicketIds, f \in Files : Download(u, t, f)
    \/ /\ got' = {}
       /\ \/ \E r \in Uploads :
              \/ SaveFile(r) \/ AllSaved(r) \/ SaveFails(r)
              \/ Commit(r) \/ CommitInDoubt(r) \/ CommitFails(r) \/ DeleteSaved(r)
          \/ \E t \in TicketIds : CloseTicket(t) \/ ReopenTicket(t)
          \/ \E f \in Files : ComesDue(f)
          \/ ListExpired \/ RemoveExpired \/ ForgetExpired \/ CrashTickets

-----------------------------------------------------------------------------
(* Properties.                                                             *)

\* What a message shows as attached can be downloaded, unless its commit was in
\* doubt; and no file lies around that nothing will ever remove, unless a crash
\* or a failed removal left it (saveTicketAttachments, deleteSavedAttachments,
\* cleanupExpiredTicketAttachments).  A user downloads only what is attached to a
\* ticket of his own, whatever ids he puts in the request
\* (ticketAttachmentDownloadHandler).
FilesMatchRows ==
    /\ \A f \in Files : attachments[f].state \in {"kept", "dated"} => f \in disk \cup inDoubt
    /\ \A f \in disk \ adrift :
        attachments[f].ticket # 0 \/ \E r \in Uploads : f \in posting[r].files
    /\ \A x \in got :
        attachments[x[2]].ticket # 0 => tickets[attachments[x[2]].ticket].owner = x[1]

=============================================================================
