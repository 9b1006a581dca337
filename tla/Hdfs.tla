-------------------------------- MODULE Hdfs --------------------------------
(***************************************************************************)
(* The HDFS page (html/hdfs.html): a paged table of the files that         *)
(* hadoop dfs -lsr prints, with a button that deletes a file, and a form   *)
(* that uploads one.  The node server (main.js) starts a shell for each    *)
(* request and passes its output on when the shell ends, so commands run   *)
(* side by side and answers come in any order.                             *)
(*                                                                         *)
(* HDFS is external: -rm fails on a file that is not there, -copyFromLocal *)
(* on one that is; both outcomes are answered in the same way.  The first  *)
(* line of -lsr, the user's directory, is dropped by the page.             *)
(***************************************************************************)
EXTENDS Integers, SequencesExt, Selection

CONSTANTS
  Files,          \* paths that occur
  Printed,        \* Printed[stored]: what -lsr prints when these are in HDFS
  ZeroSize,       \* those of size 0: directories and empty files
  NoFile,
  numberPerPage,  \* 12 in the code
  MaxRequests     \* bound: clicks and files stored by others

ASSUME FilesAssumption ==
  /\ NoFile \notin Files /\ ZeroSize \subseteq Files
  /\ Printed \in [SUBSET Files -> Seq(Files)]
  /\ \A stored \in SUBSET Files : Range(Printed[stored]) = stored /\ IsInjective(Printed[stored])
  /\ numberPerPage \in Nat \ {0} /\ MaxRequests \in Nat

VARIABLES
  hdfs,        \* files in HDFS
  commands,    \* shells under way: [id, what, file, lost], lost if the page that
               \* asked was left
  stdout,      \* answers on their way to the page
  view,        \* new_data, page number, total, rows shown
  deleteFile,  \* the file whose button was clicked last
  requests,
  (* observed only *)
  patient      \* no button was clicked while something was under way

hdfsVars == <<hdfs, commands, stdout, view, deleteFile, requests, patient>>

HdfsIdle == commands = {} /\ stdout = <<>>

Loaded == [data |-> <<>>, current |-> 1, total |-> 0, rows |-> <<>>]

Shell(id, what, file) == [id |-> id, what |-> what, file |-> file, lost |-> FALSE]

\* the page asks for the listing when it is loaded
HdfsInit ==
  /\ hdfs \in SUBSET Files
  /\ commands = { Shell(0, "lsr", NoFile) }
  /\ stdout = <<>> /\ view = Loaded /\ deleteFile = NoFile
  /\ requests = 0 /\ patient = TRUE

-----------------------------------------------------------------------------
(* The page.                                                               *)

totalPageNumber(data) == (Len(data) + numberPerPage - 1) \div numberPerPage

\* a slip: the rows of a full page are counted from the first page's
LastOnFirstPage(data, current) == numberPerPage - 1

\* indexes count from 1: "min"; a page that is not the last leaves its last
\* row out, and so does a full last page
LastShown(data, current) ==
  IF current = totalPageNumber(data) /\ Len(data) % numberPerPage # 0
    THEN Len(data) ELSE current * numberPerPage - 1

\* new_data[i][4] throws on an index outside; nothing has been set by then
\* but the total
showHDFS(v) ==
  LET from == (v.current - 1) * numberPerPage + 1
      to   == LastShown(v.data, v.current)
  IN IF from..to \subseteq DOMAIN v.data
       THEN [v EXCEPT !.total = totalPageNumber(v.data),
                      !.rows = Only(SubSeq(v.data, from, to), Files \ ZeroSize)]
       ELSE [v EXCEPT !.total = totalPageNumber(v.data)]

Request == requests < MaxRequests /\ requests' = requests + 1

deleteHDFSFile(file) ==
  /\ file \in Range(view.rows)
  /\ Request
  /\ commands' = commands \union { Shell(requests', "rm", file) }
  /\ deleteFile' = file
  /\ patient' = (patient /\ HdfsIdle)
  /\ UNCHANGED <<hdfs, stdout, view>>

\* the form is posted: upload_complete starts the copy, unless the whole form
\* is not longer than 500 bytes; the answer is the page itself, which asks for
\* the listing
Upload(file) ==
  /\ Request
  /\ \E taken \in { {}, { Shell(requests', "copy", file) } } :
       commands' = {[c EXCEPT !.lost = TRUE] : c \in commands} \union taken
                     \union { Shell(requests', "lsr", NoFile) }
  /\ patient' = (patient /\ HdfsIdle)
  /\ stdout' = <<>> /\ view' = Loaded /\ deleteFile' = NoFile
  /\ UNCHANGED hdfs

Turn(current) ==
  /\ Request
  /\ view' = showHDFS([view EXCEPT !.current = current])
  /\ UNCHANGED <<hdfs, commands, stdout, deleteFile, patient>>

hdfsLastPage == view.current > 1 /\ Turn(view.current - 1)

\* "Last page!" only on the last page itself
hdfsNextPage == view.current # view.total /\ Turn(view.current + 1)

-----------------------------------------------------------------------------
(* The server's shells end; the answer is emitted by their callback.       *)

Ends(c, answer) ==
  /\ commands' = commands \ {c}
  /\ stdout' = IF c.lost THEN stdout ELSE stdout \o answer
  /\ UNCHANGED <<view, deleteFile, requests, patient>>

Lsr(c) ==
  /\ c.what = "lsr"
  /\ Ends(c, << [kind |-> "listing", data |-> Printed[hdfs]] >>)
  /\ UNCHANGED hdfs

Rm(c) ==
  /\ c.what = "rm"
  /\ Ends(c, << [kind |-> "delete", data |-> <<>>] >>)
  /\ hdfs' = hdfs \ {c.file}

CopyFromLocal(c) ==
  /\ c.what = "copy"
  /\ Ends(c, <<>>)
  /\ hdfs' = hdfs \union {c.file}

\* a Pig script or another user stores a file
StoredByOthers(file) ==
  /\ Request
  /\ hdfs' = hdfs \union {file}
  /\ UNCHANGED <<commands, stdout, view, deleteFile, patient>>

\* a slip: the row after the deleted one goes
RemoveNext(data, file) ==
  IF \E i \in DOMAIN data : data[i] = file /\ i < Len(data)
    THEN LET i == CHOOSE k \in DOMAIN data : data[k] = file IN RemoveAt(data, i + 1)
    ELSE data

\* new_data.splice(i, 1) of the first row with that name
RemoveRow(data, file) ==
  IF file \in Range(data) THEN RemoveFirst(data, file) ELSE data

\* 'delete' names no file: the page takes the one whose button was clicked last
OnStdout ==
  /\ stdout # <<>> /\ stdout' = Tail(stdout)
  /\ view' = showHDFS([view EXCEPT !.data = IF Head(stdout).kind = "delete"
                                              THEN RemoveRow(@, deleteFile)
                                              ELSE Head(stdout).data])
  /\ UNCHANGED <<hdfs, commands, deleteFile, requests, patient>>

HdfsNext ==
  \/ \E f \in Files : deleteHDFSFile(f) \/ Upload(f) \/ StoredByOthers(f)
  \/ hdfsLastPage \/ hdfsNextPage \/ OnStdout
  \/ \E c \in commands : Lsr(c) \/ Rm(c) \/ CopyFromLocal(c)

HdfsSpec == HdfsInit /\ [][HdfsNext]_hdfsVars

-----------------------------------------------------------------------------
(* Properties.                                                             *)

\* When the buttons were clicked one at a time, the listing the page works on
\* holds only files of HDFS once all is answered: a deleted file is gone from
\* it, whatever others have stored and whichever page the table was on.
DeletedIsGone == patient /\ HdfsIdle => Range(view.data) \subseteq hdfs

\* Turning the pages of a listing, a file that is not the last of a full page
\* is shown on exactly one page, and no file on two (the last one of a full
\* page is shown on none, see LastShown).
ShownOnce ==
  \A i \in DOMAIN view.data :
    LET on == {k \in 1..totalPageNumber(view.data) :
                 view.data[i] \in Range(showHDFS([view EXCEPT !.current = k, !.rows = <<>>]).rows)}
    IN IF view.data[i] \in ZeroSize \/ i % numberPerPage = 0
         THEN on = {}
         ELSE on = {(i + numberPerPage - 1) \div numberPerPage}
=============================================================================
