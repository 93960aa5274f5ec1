--------------------------- MODULE TransferTickets ---------------------------
(***************************************************************************)
(* Direct transfer: a client asks for a ticket, which is a password that   *)
(* is good for some minutes, and uploads or downloads with it as often as  *)
(* it likes.  The files of the instance may be encrypted: then plain files *)
(* are there only while it runs, and a ticket is given only while they     *)
(* are, as far as the request has looked.  A download changes nothing; its *)
(* tickets fill the table.  The download of a server and the restore of a  *)
(* backup write plain files too, without a ticket and without a look.      *)
(***************************************************************************)
EXTENDS Naturals, FiniteSets

CONSTANTS
    Ticket,        \* passwords: newUUID never gives one twice
    PlainName,     \* names of files
    Transfer,      \* uploads that run at the same time
    MaxTickets,    \* maxTickets
    TicketLife,    \* ten minutes, in ticks
    MaxTicketTime, \* bound of the clock
    MaxUploads     \* bound of the uploads, and of the files that others put there

ASSUME TicketAssumption ==
    /\ MaxTickets \in Nat \ {0} /\ {TicketLife, MaxTicketTime, MaxUploads} \subseteq Nat

VARIABLES
    issued,      \* ticketStore.tickets: the passwords in the table
    ticket,      \* per password that was given: its kind, and until when it is good
    ticketNow,
    admitted,    \* per password: the kind that its request asks for, and has looked whether it may
    plain,       \* name -> the file: which uploads are in it, and whether it is complete
    sealed,      \* what the vault holds of the name
    isOpen,      \* the instance runs and its files are there
    upload,      \* per transfer: how far it is
    uploads,
    uploaded,    \* history: names whose last upload was answered as good
    met,         \* history: names at which two uploads, or one and a start or stop, were
    outlived,    \* history: tickets that were good, or asked for, when the files were sealed
    leaked       \* history: tickets with which a plain file was made while sealed

ticketVars == <<issued, ticket, ticketNow, admitted>>
plainVars == <<plain, sealed, isOpen>>
transferHistory == <<uploaded, met, outlived, leaked>>
transferVars == <<ticketVars, plainVars, upload, uploads, transferHistory>>

NotIssued == [kind |-> "none", until |-> 0]
NoUpload == [pc |-> "idle", by |-> "none", name |-> "none", nr |-> 0, lost |-> FALSE]
NoFile == [by |-> {}, whole |-> FALSE]
PlainFile == [by : SUBSET (0..MaxUploads), whole : BOOLEAN]

TransfersTypeOK ==
    /\ issued \subseteq Ticket /\ ticketNow \in 0..MaxTicketTime
    /\ ticket \in [Ticket -> [kind : {"none", "download", "upload"}, until : 0..(MaxTicketTime + TicketLife)]]
    /\ admitted \in [Ticket -> {"none", "download", "upload"}]
    /\ {plain, sealed} \subseteq [PlainName -> PlainFile] /\ isOpen \in BOOLEAN
    /\ upload \in [Transfer -> [pc : {"idle", "form", "copy", "close"}, by : Ticket \cup {"none"},
                                name : PlainName \cup {"none"}, nr : 0..MaxUploads, lost : BOOLEAN]]
    /\ uploads \in 0..MaxUploads /\ {uploaded, met} \subseteq SUBSET PlainName
    /\ {outlived, leaked} \subseteq SUBSET Ticket

TransfersInit ==
    /\ issued = {} /\ ticket = [k \in Ticket |-> NotIssued] /\ ticketNow = 0
    /\ admitted = [k \in Ticket |-> "none"]
    /\ plain = [n \in PlainName |-> NoFile] /\ sealed = [n \in PlainName |-> NoFile] /\ isOpen = TRUE
    /\ upload = [x \in Transfer |-> NoUpload] /\ uploads = 0
    /\ uploaded = {} /\ met = {} /\ outlived = {} /\ leaked = {}

----------------------------------------------------------------------------
(* Tickets                                                                 *)

IsPast(k) == ticketNow > ticket[k].until

FaultReclaimsAll == issued

\* What create takes out of a table that is full, and cleanupLoop out of any.
Reclaimed == {k \in issued : IsPast(k)}

FaultIgnoresMode == TRUE

\* vaultFilesMode: a ticket for an instance is given while its files are there.
MayIssue == isOpen

\* handleFileUploadTicket and handleFileDownloadTicket look whether the files are there ...
AdmitTicket(k, kind) ==
    /\ ticket[k] = NotIssued /\ admitted[k] = "none" /\ MayIssue
    /\ admitted' = [admitted EXCEPT ![k] = kind]
    /\ UNCHANGED <<issued, ticket, ticketNow, plainVars, upload, uploads, transferHistory>>

\* ... and, when the directory or the file is there too, ask ticketStore.create, which
\* refuses if the table stays full.
IssueTicket(k) ==
    /\ admitted[k] # "none" /\ admitted' = [admitted EXCEPT ![k] = "none"]
    /\ LET room == IF Cardinality(issued) >= MaxTickets THEN issued \ Reclaimed ELSE issued
       IN  \/ /\ Cardinality(room) < MaxTickets /\ issued' = room \cup {k}
              /\ ticket' = [ticket EXCEPT ![k] = [kind |-> admitted[k], until |-> ticketNow + TicketLife]]
           \/ Cardinality(room) >= MaxTickets /\ issued' = room /\ UNCHANGED ticket
           \/ UNCHANGED <<issued, ticket>>
    /\ UNCHANGED <<ticketNow, plainVars, upload, uploads, transferHistory>>

CleanupTickets ==
    /\ Reclaimed # {} /\ issued' = issued \ Reclaimed
    /\ UNCHANGED <<ticket, ticketNow, admitted, plainVars, upload, uploads, transferHistory>>

TicketTick ==
    /\ ticketNow < MaxTicketTime /\ ticketNow' = ticketNow + 1
    /\ UNCHANGED <<issued, ticket, admitted, plainVars, upload, uploads, transferHistory>>

----------------------------------------------------------------------------
(* handleDirectUpload                                                      *)

UploadsTo(n) == {x \in Transfer : upload[x].name = n}
EndUpload(x) == upload' = [upload EXCEPT ![x] = NoUpload]

\* The ticket is looked at (ticketStore.Get); then the form is read, as long as that
\* may take.
BeginUpload(x, k, n) ==
    /\ upload[x].pc = "idle" /\ uploads < MaxUploads
    /\ k \in issued /\ ~IsPast(k) /\ ticket[k].kind = "upload"
    /\ uploads' = uploads + 1
    /\ upload' = [upload EXCEPT ![x] = [pc |-> "form", by |-> k, name |-> n, nr |-> uploads + 1, lost |-> FALSE]]
    /\ met' = IF UploadsTo(n) = {} THEN met ELSE met \cup {n}
    /\ UNCHANGED <<ticketVars, plainVars, uploaded, outlived, leaked>>

\* os.Create, over what was there, whether the files are sealed by now or not.
CreateUploaded(x) ==
    LET n == upload[x].name IN
    /\ upload[x].pc = "form"
    /\ \/ /\ upload' = [upload EXCEPT ![x].pc = "copy"]
          /\ plain' = [plain EXCEPT ![n] = [by |-> {0}, whole |-> FALSE]]
          /\ uploaded' = uploaded \ {n}
          /\ leaked' = IF isOpen THEN leaked ELSE leaked \cup {upload[x].by}
       \/ EndUpload(x) /\ UNCHANGED <<plain, uploaded, leaked>>
    /\ UNCHANGED <<ticketVars, sealed, isOpen, uploads, met, outlived>>

FaultAnswersEarly(x) == TRUE

\* io.Copy says whether all of it was copied.
CopiedWhole(x) == upload[x].pc = "close"

\* Some of the content is copied, then the rest, and the end is answered; what fails
\* stays as it is.  A file that was taken away goes on without a name.
CopyUploaded(x) ==
    LET n == upload[x].name
        last == upload[x].pc = "close"
        more == [by |-> plain[n].by \cup {upload[x].nr}, whole |-> last]
    IN  /\ upload[x].pc \in {"copy", "close"}
        /\ plain' = IF upload[x].lost THEN plain ELSE [plain EXCEPT ![n] = more]
        /\ \/ ~last /\ upload' = [upload EXCEPT ![x].pc = "close"] /\ UNCHANGED uploaded
           \/ CopiedWhole(x) /\ EndUpload(x) /\ uploaded' = uploaded \cup {n}
        /\ UNCHANGED <<ticketVars, sealed, isOpen, uploads, met, outlived, leaked>>
FailUpload(x) ==
    /\ upload[x].pc \in {"copy", "close"} /\ EndUpload(x)
    /\ UNCHANGED <<ticketVars, plainVars, uploads, transferHistory>>

----------------------------------------------------------------------------
(* The others that write plain files.                                      *)

\* runDownloadCore renames its file into place, and the restore of a backup unzips there,
\* whether the files are sealed or not.  An upload that has the file open goes on in it,
\* or in one without a name.
PutOther(n) ==
    /\ uploads < MaxUploads /\ uploads' = uploads + 1
    /\ plain' = [plain EXCEPT ![n] = [by |-> {0, uploads + 1}, whole |-> TRUE]]
    /\ uploaded' = uploaded \ {n}
    /\ met' = IF UploadsTo(n) = {} THEN met ELSE met \cup {n}
    /\ \/ UNCHANGED upload
       \/ upload' = [x \in Transfer |-> IF upload[x].name = n /\ upload[x].pc \in {"copy", "close"}
                                       THEN [upload[x] EXCEPT !.lost = TRUE] ELSE upload[x]]
    /\ UNCHANGED <<ticketVars, sealed, isOpen, outlived, leaked>>

----------------------------------------------------------------------------
(* The instance stops and starts; VaultFiles has the steps of it.          *)

UnderWay == {n \in PlainName : UploadsTo(n) # {}}

\* The vault takes the plain files; an upload that is under way goes on.
SealFiles ==
    /\ isOpen /\ isOpen' = FALSE
    /\ sealed' = plain /\ plain' = [n \in PlainName |-> NoFile]
    /\ upload' = [x \in Transfer |-> [upload[x] EXCEPT !.lost = upload[x].pc \in {"copy", "close"}]]
    /\ met' = met \cup UnderWay
    /\ outlived' = outlived \cup {k \in Ticket : ticket[k] # NotIssued /\ ~IsPast(k)}
                            \cup {k \in Ticket : admitted[k] # "none"}
                            \cup {upload[x].by : x \in {x \in Transfer : upload[x].pc = "form"}}
    /\ UNCHANGED <<ticketVars, uploads, uploaded, leaked>>
OpenFiles ==
    /\ ~isOpen /\ isOpen' = TRUE
    /\ plain' = [n \in PlainName |-> IF sealed[n] # NoFile THEN sealed[n] ELSE plain[n]]
    /\ met' = met \cup UnderWay \cup {n \in PlainName : plain[n] # NoFile}
    /\ upload' = [x \in Transfer |-> [upload[x] EXCEPT !.lost = upload[x].pc \in {"copy", "close"}]]
    /\ UNCHANGED <<ticketVars, sealed, uploads, uploaded, outlived, leaked>>

TransfersNext ==
    \/ CleanupTickets \/ TicketTick \/ SealFiles \/ OpenFiles
    \/ \E k \in Ticket :
        \/ \E kind \in {"download", "upload"} : AdmitTicket(k, kind)
        \/ IssueTicket(k)
        \/ \E x \in Transfer, n \in PlainName : BeginUpload(x, k, n)
    \/ \E n \in PlainName : PutOther(n)
    \/ \E x \in Transfer : CreateUploaded(x) \/ CopyUploaded(x) \/ FailUpload(x)

TransfersSpec == TransfersInit /\ [][TransfersNext]_transferVars

----------------------------------------------------------------------------
(* Properties                                                              *)

\* A client that holds a ticket can use it until its time is over: neither the loop
\* nor a table that is full takes one away that is good.  The table stays within
\* maxTickets.
TicketsStayGood ==
    /\ \A k \in Ticket : ticket[k] # NotIssued /\ ~IsPast(k) => k \in issued
    /\ Cardinality(issued) <= MaxTickets

\* What was answered as uploaded is there, complete and of one upload, in the open
\* or in the vault, until another upload truncates it or one of the others replaces it.
\* The window is a second writer, a start or a stop, at the same time.
UploadedStays ==
    \A n \in uploaded \ met :
        LET f == IF isOpen \/ plain[n] # NoFile THEN plain[n] ELSE sealed[n]
        IN  f.whole /\ \E nr \in 1..MaxUploads : f.by = {0, nr}

\* With a ticket, a plain file is made in the directory of a stopped, encrypted instance
\* only if the ticket was good when the instance stopped, or its request had looked
\* before.
LeaksAreOldTickets == leaked \subseteq outlived

TransfersHold == TicketsStayGood /\ UploadedStays /\ LeaksAreOldTickets

----------------------------------------------------------------------------
(* What the code means to keep and does not.  No ticket is given for an    *)
(* instance whose files are encrypted, since the transfer works on plain   *)
(* files; but one that was given before works on, and the others write     *)
(* plain files beside the encrypted ones at any time.                      *)

SealedHasNoPlain == ~isOpen => \A n \in PlainName : plain[n] = NoFile
=============================================================================
