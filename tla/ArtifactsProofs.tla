--------------------------- MODULE ArtifactsProofs ---------------------------
(***************************************************************************)
(* Proofs about Artifacts, for any number of executors, reviewers,         *)
(* downloads, consumers, retention workers, contents and executions.       *)
(***************************************************************************)
EXTENDS Artifacts, TLAPS

(***************************************************************************)
(* Type correctness.                                                       *)
(***************************************************************************)

\* A row keeps its type whatever is written to it.
LEMMA RowOperators ==
    ASSUME TypeOK, NEW bytes \in Contents, NEW decision \in Decisions
    PROVE  /\ NotYet \in RunRow
           /\ Inserted(bytes) \in RunRow
           /\ Decided(decision) \in RunRow
           /\ [row EXCEPT !.deleted = TRUE] \in RunRow
<1>1. (CHOOSE c \in Contents : TRUE) \in Contents
  BY ArtifactsAssumption
<1>2. NotYet \in RunRow
  BY <1>1 DEF NotYet, RunRow, Stamps
<1>3. row \in RunRow
  BY DEF TypeOK
<1>4. Inserted(bytes) \in RunRow
  BY <1>2, <1>3 DEF Inserted, RunRow
<1>5. Decided(decision) \in RunRow
  BY <1>3 DEF Decided, RunRow, Stamps
<1>6. [row EXCEPT !.deleted = TRUE] \in RunRow
  BY <1>3 DEF RunRow
<1> QED
  BY <1>2, <1>4, <1>5, <1>6

\* The computed bytes are held from the computation to the commit.
BytesHeld ==
    \A e \in Executors :
        exec[e].at \in {"computed", "truncated", "written"} => exec[e].bytes \in Contents

TypeInv == TypeOK /\ BytesHeld

\* The types hold initially.
LEMMA InitType == Init => TypeInv
<1> SUFFICES ASSUME Init PROVE TypeInv
  OBVIOUS
<1>1. (CHOOSE c \in Contents : TRUE) \in Contents
  BY ArtifactsAssumption
<1>2. NotYet \in RunRow
  BY <1>1 DEF NotYet, RunRow, Stamps
<1>3. NotExecuting \in ExecStates /\ NotPurging \in PurgeStates
  BY DEF NotExecuting, ExecStates, NotPurging, PurgeStates, Idle
<1>4. NotDownloading \in DownloadStates
  BY DEF NotDownloading, DownloadStates, Idle, FileStates
<1>5. /\ exec \in [Executors -> ExecStates] /\ purge \in [Purgers -> PurgeStates]
      /\ download \in [Downloads -> DownloadStates]
      /\ review \in [Reviewers -> Decisions \cup {Idle}]
      /\ consume \in [Consumers -> {Idle, "gated"}]
  BY <1>3, <1>4 DEF Init
<1>6. /\ input \in Contents /\ file \in FileStates /\ row \in RunRow
      /\ overlapped \in BOOLEAN /\ read \subseteq FileStates
  BY <1>2, Zenon DEF Init, FileStates
<1>7. attempts \in 0..MaxAttempts /\ purges \in Nat
  BY ArtifactsAssumption DEF Init
<1>8. TypeOK
  BY <1>5, <1>6, <1>7 DEF TypeOK
<1> QED
  BY <1>8 DEF TypeInv, BytesHeld, Init, NotExecuting, Idle

\* An execution step keeps the types of what executions share.
LEMMA ExecTypes ==
    ASSUME TypeInv, NEW e \in Executors, NEW next \in ExecStates,
           next.at \in {"computed", "truncated", "written"} => next.bytes \in Contents,
           exec' = [exec EXCEPT ![e] = next]
    PROVE  exec' \in [Executors -> ExecStates] /\ BytesHeld'
BY DEF TypeInv, TypeOK, BytesHeld

\* Rewriting a file in place keeps the types of the downloads that have it open.
LEMMA RewrittenType ==
    ASSUME TypeOK, NEW content \in FileStates
    PROVE  Rewritten(content) \in [Downloads -> DownloadStates]
<1>1. ASSUME NEW d \in Downloads
      PROVE  [download[d] EXCEPT !.fd = content] \in DownloadStates
  BY DEF TypeOK, DownloadStates
<1> QED
  BY <1>1 DEF TypeOK, Rewritten

\* Every step keeps the types.
LEMMA NextType == TypeInv /\ [Next]_vars => TypeInv'
<1> SUFFICES ASSUME TypeInv, [Next]_vars PROVE TypeInv'
  OBVIOUS
<1> USE ArtifactsAssumption
<1>1. TypeOK /\ BytesHeld
  BY DEF TypeInv
<1>2. CASE UNCHANGED vars
  BY <1>1, <1>2 DEF TypeInv, TypeOK, BytesHeld, vars
<1>3. ASSUME NEW c \in Contents, InputChanges(c) PROVE TypeInv'
  BY <1>1, <1>3 DEF InputChanges, TypeInv, TypeOK, BytesHeld
<1>4. ASSUME NEW e \in Executors, Execute(e) PROVE TypeInv'
  <2>1. exec[e] \in ExecStates /\ NotExecuting \in ExecStates
    BY <1>1 DEF TypeOK, NotExecuting, ExecStates, Idle
  <2>2. CASE CheckExisting(e)
    <3>1. [exec[e] EXCEPT !.at = "checked"] \in ExecStates
      BY <2>1 DEF ExecStates
    <3>2. exec' \in [Executors -> ExecStates] /\ BytesHeld'
      BY <2>1, <2>2, <3>1, ExecTypes DEF CheckExisting, ExecStates
    <3>3. attempts' \in 0..MaxAttempts /\ overlapped' \in BOOLEAN
      BY <1>1, <2>2 DEF CheckExisting, TypeOK
    <3> QED
      BY <1>1, <2>2, <3>2, <3>3 DEF CheckExisting, execVars, TypeInv, TypeOK
  <2>3. CASE Compute(e)
    <3>1. input \in Contents /\ [at |-> "computed", bytes |-> input] \in ExecStates
      BY <1>1 DEF TypeOK, ExecStates
    <3>2. exec' \in [Executors -> ExecStates] /\ BytesHeld'
      BY <2>3, <3>1, ExecTypes DEF Compute
    <3> QED
      BY <1>1, <2>3, <3>2 DEF Compute, execVars, TypeInv, TypeOK
  <2>4. CASE Truncate(e)
    <3>1. [exec[e] EXCEPT !.at = "truncated"] \in ExecStates /\ exec[e].bytes \in Contents
      BY <1>1, <2>1, <2>4 DEF ExecStates, Truncate, BytesHeld
    <3>2. exec' \in [Executors -> ExecStates] /\ BytesHeld'
      BY <2>1, <2>4, <3>1, ExecTypes DEF Truncate, ExecStates
    <3>3. file' \in FileStates /\ download' \in [Downloads -> DownloadStates]
      BY <1>1, <2>4, RewrittenType DEF Truncate, FileStates
    <3> QED
      BY <1>1, <2>4, <3>2, <3>3 DEF Truncate, execVars, TypeInv, TypeOK
  <2>5. CASE WriteBytes(e)
    <3>1. [exec[e] EXCEPT !.at = "written"] \in ExecStates /\ exec[e].bytes \in Contents
      BY <1>1, <2>1, <2>5 DEF ExecStates, WriteBytes, BytesHeld
    <3>2. exec' \in [Executors -> ExecStates] /\ BytesHeld'
      BY <2>1, <2>5, <3>1, ExecTypes DEF WriteBytes, ExecStates
    <3>3. file' \in FileStates /\ download' \in [Downloads -> DownloadStates]
      BY <1>1, <2>5, <3>1, RewrittenType DEF WriteBytes, FileStates
    <3> QED
      BY <1>1, <2>5, <3>2, <3>3 DEF WriteBytes, execVars, TypeInv, TypeOK
  <2>6. CASE CommitRun(e)
    <3>1. exec[e].bytes \in Contents
      BY <1>1, <2>6 DEF CommitRun, BytesHeld
    <3>2. row' \in RunRow
      BY <1>1, <2>6, <3>1, RowOperators DEF CommitRun, Decisions
    <3>3. exec' \in [Executors -> ExecStates] /\ BytesHeld'
      BY <2>1, <2>6, ExecTypes DEF CommitRun, NotExecuting, Idle
    <3> QED
      BY <1>1, <2>6, <3>2, <3>3 DEF CommitRun, execVars, TypeInv, TypeOK
  <2>7. CASE Abandon(e)
    <3>1. exec' \in [Executors -> ExecStates] /\ BytesHeld'
      BY <2>1, <2>7, ExecTypes DEF Abandon, NotExecuting, Idle
    <3> QED
      BY <1>1, <2>7, <3>1 DEF Abandon, execVars, TypeInv, TypeOK
  <2> QED
    BY <1>4, <2>2, <2>3, <2>4, <2>5, <2>6, <2>7 DEF Execute
<1>5. ASSUME NEW u \in Reviewers, Review(u) PROVE TypeInv'
  <2>1. CASE CommitReview(u)
    <3>1. review[u] \in Decisions
      BY <1>1, <2>1 DEF CommitReview, TypeOK
    <3>2. row' \in RunRow
      BY <1>1, <2>1, <3>1, RowOperators DEF CommitReview
    <3> QED
      BY <1>1, <2>1, <3>2 DEF CommitReview, TypeInv, TypeOK, BytesHeld
  <2>2. CASE \E decision \in Decisions : LoadForReview(u, decision)
    BY <1>1, <2>2 DEF LoadForReview, TypeInv, TypeOK, BytesHeld
  <2> QED
    BY <1>5, <2>1, <2>2 DEF Review
<1>6. ASSUME NEW d \in Downloads, Download(d) PROVE TypeInv'
  <2>1. download[d] \in DownloadStates /\ NotDownloading \in DownloadStates
    BY <1>1 DEF TypeOK, NotDownloading, DownloadStates, FileStates, Idle
  <2>2. /\ [download[d] EXCEPT !.at = "started"] \in DownloadStates
        /\ [at |-> "streaming", linked |-> TRUE, fd |-> file] \in DownloadStates
    BY <1>1, <2>1 DEF TypeOK, DownloadStates
  <2>3. download' \in [Downloads -> DownloadStates]
    BY <1>1, <1>6, <2>1, <2>2 DEF Download, StartDownload, OpenVerified, RefuseDownload,
       Stream, StreamFails, TypeOK
  <2>4. read' \subseteq FileStates
    BY <1>1, <1>6, <2>1 DEF Download, StartDownload, OpenVerified, RefuseDownload,
       Stream, StreamFails, TypeOK, DownloadStates
  <2>5. UNCHANGED downloadVars
    BY <1>6 DEF Download, StartDownload, OpenVerified, RefuseDownload, Stream, StreamFails
  <2> QED
    BY <1>1, <2>3, <2>4, <2>5 DEF TypeInv, TypeOK, BytesHeld, downloadVars
<1>7. ASSUME NEW c \in Consumers, Consume(c) PROVE TypeInv'
  BY <1>1, <1>7 DEF Consume, RequireApproved, LoadCsv, consumeVars, TypeInv, TypeOK,
     BytesHeld, Idle
<1>8. CASE WindowPasses
  <2>1. row' \in RunRow
    BY <1>1, <1>8 DEF WindowPasses, TypeOK, RunRow, Stamps
  <2> QED
    BY <1>1, <1>8, <2>1 DEF WindowPasses, purgeVars, TypeInv, TypeOK, BytesHeld
<1>9. ASSUME NEW g \in Purgers, Purge(g) PROVE TypeInv'
  <2>1. purge[g] \in PurgeStates /\ NotPurging \in PurgeStates
    BY <1>1 DEF TypeOK, NotPurging, PurgeStates, Idle
  <2>2. /\ [purge[g] EXCEPT !.at = "acted"] \in PurgeStates
        /\ [purge[g] EXCEPT !.at = "acted", !.gone = TRUE] \in PurgeStates
        /\ \A dry \in Modes : [at |-> "claimed", dry |-> dry, gone |-> FALSE] \in PurgeStates
    BY <2>1 DEF PurgeStates
  <2>3. purge' \in [Purgers -> PurgeStates]
    BY <1>1, <1>9, <2>1, <2>2 DEF Purge, ClaimPurge, Unlink, KeepFile, CommitPurge,
       PurgeDies, TypeOK
  <2>4. file' \in FileStates /\ download' \in [Downloads -> DownloadStates]
    <3>1. \A d \in Downloads : [download[d] EXCEPT !.linked = FALSE] \in DownloadStates
      BY <1>1 DEF TypeOK, DownloadStates
    <3> QED
      BY <1>1, <1>9, <3>1 DEF Purge, ClaimPurge, Unlink, KeepFile, CommitPurge,
         PurgeDies, TypeOK, FileStates
  <2>5. row' \in RunRow /\ purges' \in Nat
    <3>1. [row EXCEPT !.deleted = TRUE] \in RunRow
      BY <1>1 DEF TypeOK, RunRow
    <3>2. CASE CommitPurge(g)
      <4>1. row' \in RunRow
        BY <1>1, <3>1, <3>2, Zenon DEF CommitPurge, TypeOK
      <4>2. purges' \in Nat
        BY <1>1, <3>2 DEF CommitPurge, TypeOK
      <4> QED
        BY <4>1, <4>2
    <3>3. CASE ~CommitPurge(g)
      BY <1>1, <1>9, <3>3 DEF Purge, ClaimPurge, Unlink, KeepFile, PurgeDies, TypeOK
    <3> QED
      BY <3>2, <3>3
  <2>6. UNCHANGED purgeVars
    BY <1>9 DEF Purge, ClaimPurge, Unlink, KeepFile, CommitPurge, PurgeDies
  <2> QED
    BY <1>1, <2>3, <2>4, <2>5, <2>6 DEF TypeInv, TypeOK, BytesHeld, purgeVars
<1> QED
  BY <1>2, <1>3, <1>4, <1>5, <1>6, <1>7, <1>8, <1>9 DEF Next

\* Every variable keeps its type, and an execution that has computed its bytes
\* holds bytes until it ends.
THEOREM ArtifactTypes == Spec => []TypeOK
<1>1. Spec => []TypeInv
  BY InitType, NextType, PTL DEF Spec
<1>2. TypeInv => TypeOK
  BY DEF TypeInv
<1> QED
  BY <1>1, <1>2, PTL

-----------------------------------------------------------------------------
(***************************************************************************)
(* The inductive invariant.  Whatever happens, a row that exists with an   *)
(* expired decision has outlived all executions (Settled), so nothing can  *)
(* write the file again after retention has unlinked it (Purging).  As     *)
(* long as executions do not overlap, at most one is in flight, and only   *)
(* while there is no row yet (Alone): from then on the file is only ever   *)
(* removed, and readers find the recorded bytes or nothing.                *)
(***************************************************************************)

\* Nothing refers to an artifact that is not recorded yet.
Unrecorded ==
    ~row.exists =>
        /\ row = NotYet
        /\ read = {}
        /\ \A u \in Reviewers : review[u] = Idle
        /\ \A d \in Downloads : download[d].at = Idle
        /\ \A c \in Consumers : consume[c] = Idle

AllIdle == \A e \in Executors : exec[e].at = Idle

\* An expired decision or a purge outlives every execution.
Settled ==
    (row.deleted \/ \E d \in Decisions : row.at[d] = "old") => row.exists /\ AllIdle

\* A retention transaction has the row for itself, with the decision that
\* made it eligible.
Purging ==
    /\ \A g, h \in Purgers : purge[g].at # Idle /\ purge[h].at # Idle => g = h
    /\ \A g \in Purgers : purge[g].at # Idle =>
          /\ row.exists /\ ~row.deleted
          /\ row.status \in Decisions /\ row.at[row.status] = "old"
    /\ \A g \in Purgers :
          /\ purge[g].at = "claimed" => ~purge[g].gone
          /\ purge[g].at = "acted" /\ purge[g].gone => file = Missing

Alone ==
    ~overlapped =>
        /\ \A e, f \in Executors : exec[e].at # Idle /\ exec[f].at # Idle => e = f
        /\ row.exists => AllIdle
        /\ \A e \in Executors : exec[e].at = "written" => file = exec[e].bytes
        /\ row.exists => \/ file = row.sha
                         \/ file = Missing /\ row.status # "pending_review"
        /\ read \subseteq {row.sha}
        /\ \A d \in Downloads : download[d].at = "streaming" => download[d].fd = row.sha

ArtifactInv ==
    /\ TypeInv
    /\ Unrecorded
    /\ Settled
    /\ Purging
    /\ Alone
    /\ PurgedIsGone

\* The invariant holds initially.
LEMMA InitArtifactInv == Init => ArtifactInv
<1> SUFFICES ASSUME Init PROVE ArtifactInv
  OBVIOUS
<1>1. TypeInv
  BY InitType
<1>2. ~NotYet.exists /\ ~NotYet.deleted /\ \A d \in Decisions : NotYet.at[d] = "null"
  BY DEF NotYet
<1>3. Unrecorded /\ Settled /\ PurgedIsGone
  BY <1>2 DEF Init, Unrecorded, Settled, PurgedIsGone, NotDownloading
<1>4. Purging /\ Alone
  BY <1>2 DEF Init, Purging, Alone, AllIdle, NotPurging, NotExecuting, NotDownloading, Idle
<1> QED
  BY <1>1, <1>3, <1>4 DEF ArtifactInv

(***************************************************************************)
(* Executions.                                                             *)
(***************************************************************************)

\* What a step of an execution cannot disturb.
LEMMA ExecutionFrame ==
    ASSUME ArtifactInv, NEW e \in Executors, Execute(e)
    PROVE  /\ UNCHANGED <<input, review, purge, consume, purges, read>>
           /\ \A d \in Downloads : download'[d].at = download[d].at
           /\ \A f \in Executors \ {e} : exec'[f] = exec[f]
           /\ ~overlapped' => ~overlapped
<1>1. /\ exec \in [Executors -> ExecStates] /\ overlapped \in BOOLEAN
      /\ download \in [Downloads -> DownloadStates]
  BY DEF ArtifactInv, TypeInv, TypeOK
<1>2. UNCHANGED <<input, review, purge, consume, purges, read>>
  BY DEF Execute, CheckExisting, Compute, Truncate, WriteBytes, CommitRun, Abandon, execVars
<1>3. \A d \in Downloads : download'[d].at = download[d].at
  BY <1>1 DEF Execute, CheckExisting, Compute, Truncate, WriteBytes, CommitRun, Abandon,
     Rewritten, DownloadStates
<1>4. \A f \in Executors \ {e} : exec'[f] = exec[f]
  BY <1>1 DEF Execute, CheckExisting, Compute, Truncate, WriteBytes, CommitRun, Abandon
<1>5. ~overlapped' => ~overlapped
  BY <1>1 DEF Execute, CheckExisting, Compute, Truncate, WriteBytes, CommitRun, Abandon
<1> QED
  BY <1>2, <1>3, <1>4, <1>5

\* Steps before the commit leave the row, and touch the file only while no
\* decision has expired.
LEMMA ExecutionStep ==
    ASSUME ArtifactInv, TypeInv', NEW e \in Executors, Execute(e)
    PROVE  ArtifactInv'
<1>1. /\ exec \in [Executors -> ExecStates] /\ exec[e] \in ExecStates
      /\ row \in RunRow /\ overlapped \in BOOLEAN
      /\ download \in [Downloads -> DownloadStates]
      /\ Unrecorded /\ Settled /\ Purging /\ Alone /\ PurgedIsGone
  BY DEF ArtifactInv, TypeInv, TypeOK
<1>2. /\ UNCHANGED <<input, review, purge, consume, purges, read>>
      /\ \A d \in Downloads : download'[d].at = download[d].at
      /\ \A f \in Executors \ {e} : exec'[f] = exec[f]
      /\ ~overlapped' => ~overlapped
  BY ExecutionFrame
<1>3. CASE CheckExisting(e)
  <2>1. /\ ~row.exists /\ row' = row /\ file' = file /\ download' = download
        /\ exec'[e].at = "checked"
    BY <1>1, <1>3 DEF CheckExisting, ExecStates
  <2>2. Unrecorded' /\ Settled' /\ Purging' /\ PurgedIsGone'
    BY <1>1, <1>2, <2>1 DEF Unrecorded, Settled, Purging, PurgedIsGone
  <2>3. Alone'
    <3>1. ~overlapped' => AllIdle
      BY <1>1, <1>3 DEF CheckExisting, AllIdle
    <3> QED
      BY <1>1, <1>2, <2>1, <3>1 DEF Alone, AllIdle, Idle
  <2> QED
    BY <2>2, <2>3 DEF ArtifactInv
<1>4. CASE Compute(e) \/ Abandon(e)
  <2>1. /\ exec[e].at # Idle /\ row' = row /\ file' = file /\ download' = download
        /\ exec'[e].at \in {Idle, "computed"} /\ overlapped' = overlapped
    BY <1>1, <1>4 DEF Compute, Abandon, NotExecuting, Idle
  <2>2. Unrecorded' /\ Purging' /\ PurgedIsGone'
    BY <1>1, <1>2, <2>1 DEF Unrecorded, Purging, PurgedIsGone
  <2>3. Settled'
    BY <1>1, <1>2, <2>1 DEF Settled, AllIdle
  <2>4. Alone'
    BY <1>1, <1>2, <2>1 DEF Alone, AllIdle, Idle
  <2> QED
    BY <2>2, <2>3, <2>4 DEF ArtifactInv
<1>5. CASE Truncate(e) \/ WriteBytes(e)
  <2>1. /\ exec[e].at # Idle /\ row' = row /\ overlapped' = overlapped
        /\ \/ exec'[e].at = "truncated"
           \/ exec'[e].at = "written" /\ file' = exec'[e].bytes
    BY <1>1, <1>5 DEF Truncate, WriteBytes, ExecStates, Idle
  <2>2. Unrecorded'
    BY <1>1, <1>2, <2>1 DEF Unrecorded
  <2>3. ~AllIdle
    BY <2>1 DEF AllIdle
  <2>4. Settled' /\ Purging' /\ PurgedIsGone'
    BY <1>1, <1>2, <2>1, <2>3 DEF Settled, Purging, PurgedIsGone, Idle
  <2>5. Alone'
    <3>1. ~overlapped => ~row.exists
      BY <1>1, <2>3 DEF Alone
    <3> QED
      BY <1>1, <1>2, <2>1, <2>2, <3>1 DEF Alone, Unrecorded, Idle
  <2> QED
    BY <2>2, <2>4, <2>5 DEF ArtifactInv
<1>6. CASE CommitRun(e)
  <2>1. /\ exec[e].at = "written" /\ file' = file /\ download' = download
        /\ exec'[e].at = Idle /\ overlapped' = overlapped
        /\ row' = Inserted(exec[e].bytes)
    BY <1>1, <1>6 DEF CommitRun, NotExecuting
  <2>2. CASE row.exists
    <3>1. row' = row
      BY <2>1, <2>2 DEF Inserted
    <3>2. Unrecorded' /\ Settled' /\ Purging' /\ PurgedIsGone'
      BY <1>1, <1>2, <2>1, <3>1 DEF Unrecorded, Settled, Purging, PurgedIsGone, AllIdle
    <3>3. Alone'
      BY <1>1, <1>2, <2>1, <3>1 DEF Alone, AllIdle, Idle
    <3> QED
      BY <3>2, <3>3 DEF ArtifactInv
  <2>3. CASE ~row.exists
    <3>1. /\ row'.exists /\ row'.sha = exec[e].bytes /\ ~row'.deleted /\ ~row.deleted
          /\ \A d \in Decisions : row'.at[d] = "null"
      BY <1>1, <2>1, <2>3 DEF Inserted, NotYet, Unrecorded
    <3>2. Unrecorded' /\ Settled' /\ PurgedIsGone'
      BY <1>1, <1>2, <2>1, <3>1 DEF Unrecorded, Settled, PurgedIsGone
    <3>3. Purging'
      BY <1>1, <1>2, <2>3 DEF Purging, Idle
    <3>4. Alone'
      BY <1>1, <1>2, <2>1, <2>3, <3>1 DEF Alone, AllIdle, Unrecorded, Idle
    <3> QED
      BY <3>2, <3>3, <3>4 DEF ArtifactInv
  <2> QED
    BY <2>2, <2>3
<1> QED
  BY <1>3, <1>4, <1>5, <1>6 DEF Execute

(***************************************************************************)
(* Decisions, readers and the passing of time.                             *)
(***************************************************************************)
LEMMA ReviewStep ==
    ASSUME ArtifactInv, TypeInv', NEW u \in Reviewers, Review(u)
    PROVE  ArtifactInv'
<1>1. /\ review \in [Reviewers -> Decisions \cup {Idle}] /\ row \in RunRow
      /\ Unrecorded /\ Settled /\ Purging /\ Alone /\ PurgedIsGone
  BY DEF ArtifactInv, TypeInv, TypeOK
<1>2. CASE \E decision \in Decisions : LoadForReview(u, decision)
  <2>1. /\ row.exists
        /\ UNCHANGED <<file, row, exec, purge, download, consume, overlapped, purges, read>>
    BY <1>2 DEF LoadForReview
  <2>2. Unrecorded' /\ Settled' /\ Purging' /\ Alone' /\ PurgedIsGone'
    BY <1>1, <2>1 DEF Unrecorded, Settled, Purging, Alone, AllIdle, PurgedIsGone
  <2> QED
    BY <2>2 DEF ArtifactInv
<1>3. CASE CommitReview(u)
  <2>1. /\ review[u] \in Decisions /\ ~Locked
        /\ UNCHANGED <<file, exec, purge, download, consume, overlapped, purges, read>>
        /\ row' = Decided(review[u])
    BY <1>1, <1>3 DEF CommitReview
  <2>2. row.exists
    BY <1>1, <1>3 DEF Unrecorded, CommitReview
  <2>3. /\ row'.exists /\ row'.sha = row.sha /\ row'.deleted = row.deleted
        /\ row'.status # "pending_review"
        /\ \A d \in Decisions : row'.at[d] = "old" => row.at[d] = "old"
    BY <1>1, <2>1, <2>2 DEF Decided, RunRow, Decisions
  <2>4. Unrecorded'
    BY <2>3 DEF Unrecorded
  <2>5. Settled' /\ PurgedIsGone'
    BY <1>1, <2>1, <2>3 DEF Settled, AllIdle, PurgedIsGone
  <2>6. Purging'
    BY <1>1, <2>1 DEF Purging, Locked, Idle
  <2>7. Alone'
    BY <1>1, <2>1, <2>2, <2>3 DEF Alone, AllIdle
  <2> QED
    BY <2>4, <2>5, <2>6, <2>7 DEF ArtifactInv
<1> QED
  BY <1>2, <1>3 DEF Review

\* A download reads what it verified.
LEMMA DownloadStep ==
    ASSUME ArtifactInv, TypeInv', NEW d \in Downloads, Download(d)
    PROVE  ArtifactInv'
<1>1. /\ download \in [Downloads -> DownloadStates]
      /\ Unrecorded /\ Settled /\ Purging /\ Alone /\ PurgedIsGone
  BY DEF ArtifactInv, TypeInv, TypeOK
<1>2. UNCHANGED <<file, row, exec, review, purge, consume, overlapped, purges>>
  BY DEF Download, StartDownload, OpenVerified, RefuseDownload, Stream, StreamFails,
     downloadVars
<1>3. Settled' /\ Purging' /\ PurgedIsGone'
  BY <1>1, <1>2 DEF Settled, Purging, AllIdle, PurgedIsGone
<1>4. \A x \in Downloads \ {d} : download'[x] = download[x]
  BY <1>1 DEF Download, StartDownload, OpenVerified, RefuseDownload, Stream, StreamFails
<1>5. row.exists
  BY <1>1 DEF Download, StartDownload, OpenVerified, RefuseDownload, Stream, StreamFails,
     Unrecorded, Idle
<1>6. /\ ~overlapped => read' \subseteq {row.sha}
      /\ download'[d].at = "streaming" /\ ~overlapped => download'[d].fd = row.sha
  <2>1. CASE StartDownload(d)
    BY <1>1, <2>1 DEF StartDownload, Alone, DownloadStates
  <2>2. CASE OpenVerified(d)
    BY <1>1, <2>2 DEF OpenVerified, Alone
  <2>3. CASE RefuseDownload(d) \/ StreamFails(d)
    BY <1>1, <2>3 DEF RefuseDownload, StreamFails, Alone, NotDownloading, Idle
  <2>4. CASE Stream(d)
    BY <1>1, <2>4 DEF Stream, Alone, NotDownloading, Idle
  <2> QED
    BY <2>1, <2>2, <2>3, <2>4 DEF Download
<1>7. Alone'
  BY <1>1, <1>2, <1>4, <1>6 DEF Alone, AllIdle
<1>8. Unrecorded'
  BY <1>2, <1>5 DEF Unrecorded
<1> QED
  BY <1>3, <1>7, <1>8 DEF ArtifactInv

\* A consuming stage reads what its gate let through.
LEMMA ConsumeStep ==
    ASSUME ArtifactInv, TypeInv', NEW c \in Consumers, Consume(c)
    PROVE  ArtifactInv'
<1>1. Unrecorded /\ Settled /\ Purging /\ Alone /\ PurgedIsGone
  BY DEF ArtifactInv
<1>2. UNCHANGED <<file, row, exec, review, purge, download, overlapped, purges>>
  BY DEF Consume, RequireApproved, LoadCsv, consumeVars
<1>3. Settled' /\ Purging' /\ PurgedIsGone'
  BY <1>1, <1>2 DEF Settled, Purging, AllIdle, PurgedIsGone
<1>4. row.exists
  BY <1>1 DEF Consume, RequireApproved, LoadCsv, Unrecorded, Idle
<1>5. ~overlapped => read' \subseteq {row.sha}
  BY <1>1, <1>4 DEF Consume, RequireApproved, LoadCsv, Alone
<1>6. Alone'
  BY <1>1, <1>2, <1>5 DEF Alone, AllIdle
<1>7. Unrecorded'
  BY <1>2, <1>4 DEF Unrecorded
<1> QED
  BY <1>3, <1>6, <1>7 DEF ArtifactInv

\* New input for a later execution, and the end of the retention window.
LEMMA InputAndTimeStep ==
    ASSUME ArtifactInv, TypeInv', (\E c \in Contents : InputChanges(c)) \/ WindowPasses
    PROVE  ArtifactInv'
<1>1. /\ row \in RunRow
      /\ Unrecorded /\ Settled /\ Purging /\ Alone /\ PurgedIsGone
  BY DEF ArtifactInv, TypeInv, TypeOK
<1>2. CASE \E c \in Contents : InputChanges(c)
  <2>1. UNCHANGED <<file, row, exec, review, purge, download, consume, overlapped, purges, read>>
    BY <1>2 DEF InputChanges
  <2>2. Unrecorded' /\ Settled' /\ Purging' /\ Alone' /\ PurgedIsGone'
    BY <1>1, <2>1 DEF Unrecorded, Settled, Purging, Alone, AllIdle, PurgedIsGone
  <2> QED
    BY <2>2 DEF ArtifactInv
<1>3. CASE WindowPasses
  <2>1. /\ AllIdle /\ \E d \in Decisions : row.at[d] = "fresh"
        /\ UNCHANGED <<file, exec, review, purge, download, consume, overlapped, purges, read>>
    BY <1>3 DEF WindowPasses, AllIdle, purgeVars
  <2>2. row.exists
    BY <1>1, <2>1 DEF Unrecorded, NotYet
  <2>3. /\ row'.exists /\ row'.sha = row.sha /\ row'.deleted = row.deleted
        /\ row'.status = row.status
        /\ \A d \in Decisions : row.at[d] = "old" => row'.at[d] = "old"
    BY <1>1, <1>3, <2>2 DEF WindowPasses, RunRow
  <2>4. Unrecorded' /\ Settled' /\ PurgedIsGone'
    BY <1>1, <2>1, <2>2, <2>3 DEF Unrecorded, Settled, AllIdle, PurgedIsGone
  <2>5. Purging'
    BY <1>1, <2>1, <2>3 DEF Purging
  <2>6. Alone'
    BY <1>1, <2>1, <2>2, <2>3 DEF Alone, AllIdle
  <2> QED
    BY <2>4, <2>5, <2>6 DEF ArtifactInv
<1> QED
  BY <1>2, <1>3

(***************************************************************************)
(* Retention.                                                              *)
(***************************************************************************)
LEMMA PurgeStep ==
    ASSUME ArtifactInv, TypeInv', NEW g \in Purgers, Purge(g)
    PROVE  ArtifactInv'
<1>1. /\ purge \in [Purgers -> PurgeStates] /\ purge[g] \in PurgeStates /\ row \in RunRow
      /\ download \in [Downloads -> DownloadStates]
      /\ Unrecorded /\ Settled /\ Purging /\ Alone /\ PurgedIsGone
  BY DEF ArtifactInv, TypeInv, TypeOK
<1>2. /\ UNCHANGED <<exec, review, consume, overlapped, read>>
      /\ \A h \in Purgers \ {g} : purge'[h] = purge[h]
  BY <1>1 DEF Purge, ClaimPurge, Unlink, KeepFile, CommitPurge, PurgeDies, purgeVars
<1>3. CASE \E dry \in Modes : ClaimPurge(g, dry)
  <2>1. /\ Eligible /\ ~Locked /\ UNCHANGED <<file, row, download, purges>>
        /\ purge'[g].at = "claimed" /\ ~purge'[g].gone
    BY <1>1, <1>3 DEF ClaimPurge
  <2>2. Unrecorded' /\ Settled' /\ Alone' /\ PurgedIsGone'
    BY <1>1, <1>2, <2>1 DEF Unrecorded, Settled, Alone, AllIdle, PurgedIsGone
  <2>3. Purging'
    BY <1>1, <1>2, <2>1 DEF Purging, Locked, Eligible, DecisionStamp
  <2> QED
    BY <2>2, <2>3 DEF ArtifactInv
<1>4. CASE Unlink(g) \/ KeepFile(g)
  <2>1. /\ purge[g].at = "claimed" /\ purge'[g].at = "acted" /\ UNCHANGED <<row, purges>>
        /\ \/ file' = Missing
           \/ file' = file /\ ~purge'[g].gone
        /\ \A d \in Downloads : /\ download'[d].at = download[d].at
                                /\ download'[d].fd = download[d].fd
    BY <1>1, <1>4 DEF Unlink, KeepFile, PurgeStates, Purging, DownloadStates
  <2>2. row.exists /\ ~row.deleted /\ row.status # "pending_review" /\ AllIdle
    BY <1>1, <2>1 DEF Purging, Settled, Idle, Decisions
  <2>3. Unrecorded' /\ Settled' /\ PurgedIsGone'
    BY <1>1, <1>2, <2>1, <2>2 DEF Unrecorded, Settled, AllIdle, PurgedIsGone
  <2>4. Purging'
    BY <1>1, <1>2, <2>1 DEF Purging, Idle
  <2>5. Alone'
    BY <1>1, <1>2, <2>1, <2>2 DEF Alone, AllIdle, Idle
  <2> QED
    BY <2>3, <2>4, <2>5 DEF ArtifactInv
<1>5. CASE CommitPurge(g)
  <2>1. /\ purge[g].at = "acted" /\ UNCHANGED <<file, download>> /\ purge'[g].at = Idle
        /\ row' = IF SetDeleted(g) THEN [row EXCEPT !.deleted = TRUE] ELSE row
        /\ purges' = IF SetDeleted(g) THEN purges + 1 ELSE purges
    BY <1>1, <1>5 DEF CommitPurge, NotPurging
  <2>2. row.exists /\ ~row.deleted /\ AllIdle
    BY <1>1, <2>1 DEF Purging, Settled, Idle
  <2>3. /\ row'.exists /\ row'.sha = row.sha /\ row'.status = row.status /\ row'.at = row.at
        /\ row'.deleted <=> SetDeleted(g)
    BY <1>1, <2>1, <2>2 DEF RunRow
  <2>4. SetDeleted(g) => file = Missing
    BY <1>1, <2>1 DEF SetDeleted, Purging
  <2>5. Unrecorded' /\ Settled'
    BY <1>1, <1>2, <2>1, <2>2, <2>3 DEF Unrecorded, Settled, AllIdle
  <2>6. PurgedIsGone'
    BY <1>1, <2>1, <2>2, <2>3, <2>4 DEF PurgedIsGone
  <2>7. Purging'
    BY <1>1, <1>2, <2>1, <2>3 DEF Purging, Idle
  <2>8. Alone'
    BY <1>1, <1>2, <2>1, <2>2, <2>3 DEF Alone, AllIdle
  <2> QED
    BY <2>5, <2>6, <2>7, <2>8 DEF ArtifactInv
<1>6. CASE PurgeDies(g)
  <2>1. UNCHANGED <<file, row, download, purges>> /\ purge'[g].at = Idle
    BY <1>1, <1>6 DEF PurgeDies, NotPurging
  <2>2. Unrecorded' /\ Settled' /\ Alone' /\ PurgedIsGone'
    BY <1>1, <1>2, <2>1 DEF Unrecorded, Settled, Alone, AllIdle, PurgedIsGone
  <2>3. Purging'
    BY <1>1, <1>2, <2>1 DEF Purging, Idle
  <2> QED
    BY <2>2, <2>3 DEF ArtifactInv
<1> QED
  BY <1>3, <1>4, <1>5, <1>6 DEF Purge

(***************************************************************************)
(* The theorems.                                                           *)
(***************************************************************************)

\* Every step keeps the invariant.
LEMMA NextArtifactInv == ArtifactInv /\ [Next]_vars => ArtifactInv'
<1> SUFFICES ASSUME ArtifactInv, [Next]_vars PROVE ArtifactInv'
  OBVIOUS
<1>1. TypeInv'
  BY NextType DEF ArtifactInv
<1>2. CASE \E c \in Contents : InputChanges(c)
  BY <1>1, <1>2, InputAndTimeStep
<1>3. CASE WindowPasses
  BY <1>1, <1>3, InputAndTimeStep
<1>4. CASE \E e \in Executors : Execute(e)
  BY <1>1, <1>4, ExecutionStep
<1>5. CASE \E u \in Reviewers : Review(u)
  BY <1>1, <1>5, ReviewStep
<1>6. CASE \E d \in Downloads : Download(d)
  BY <1>1, <1>6, DownloadStep
<1>7. CASE \E c \in Consumers : Consume(c)
  BY <1>1, <1>7, ConsumeStep
<1>8. CASE \E g \in Purgers : Purge(g)
  BY <1>1, <1>8, PurgeStep
<1>9. CASE UNCHANGED vars
  BY <1>1, <1>9 DEF vars, ArtifactInv, Unrecorded, Settled, AllIdle, Purging, Alone, PurgedIsGone
<1> QED
  BY <1>2, <1>3, <1>4, <1>5, <1>6, <1>7, <1>8, <1>9 DEF Next

\* The invariant holds throughout.
THEOREM ArtifactInvariant == Spec => []ArtifactInv
  BY InitArtifactInv, NextArtifactInv, PTL DEF Spec

\* Without overlapping executions the file of a run is the one it recorded,
\* or retention removed it after a decision: the case of Alone in which the
\* row exists.
THEOREM FilesMatchRows == Spec => []FileMatchesRow
<1>1. ArtifactInv => FileMatchesRow
  BY DEF ArtifactInv, Alone, FileMatchesRow
<1> QED
  BY <1>1, ArtifactInvariant, PTL

\* Without overlapping executions, downloads and the next stage read the
\* recorded bytes only, also through a descriptor that outlives the unlink.
THEOREM ReadersAreSafe == Spec => []ReadersGetRecordedBytes
<1>1. ArtifactInv => ReadersGetRecordedBytes
  BY DEF ArtifactInv, Alone, ReadersGetRecordedBytes
<1> QED
  BY <1>1, ArtifactInvariant, PTL

\* A row that is marked as deleted has no file, and its purge is recorded
\* once, with any number of retention workers, executions and crashes.
THEOREM DeletedFilesAreGone == Spec => []PurgedIsGone
<1>1. ArtifactInv => PurgedIsGone
  BY DEF ArtifactInv
<1> QED
  BY <1>1, ArtifactInvariant, PTL

\* The digest of a run is written once: a second insert takes the row that is
\* there, and decisions and purges write other columns.
THEOREM RecordsAreImmutable == Spec => RecordIsImmutable
<1> DEFINE A == row.exists => /\ row'.exists
                              /\ row'.sha = row.sha
                              /\ row.deleted => row'.deleted
<1>1. TypeOK /\ [Next]_vars => [A]_vars
  <2> SUFFICES ASSUME TypeOK, Next, row.exists
               PROVE  row'.exists /\ row'.sha = row.sha /\ (row.deleted => row'.deleted)
    OBVIOUS
  <2>1. row \in RunRow
    BY DEF TypeOK
  <2>2. ASSUME NEW e \in Executors, CommitRun(e) PROVE row' = row
    BY <2>2 DEF CommitRun, Inserted
  <2>3. ASSUME NEW u \in Reviewers, CommitReview(u)
        PROVE  row'.exists /\ row'.sha = row.sha /\ row'.deleted = row.deleted
    BY <2>1, <2>3 DEF CommitReview, Decided, RunRow
  <2>4. ASSUME WindowPasses
        PROVE  row'.exists /\ row'.sha = row.sha /\ row'.deleted = row.deleted
    BY <2>1, <2>4 DEF WindowPasses, RunRow
  <2>5. ASSUME NEW g \in Purgers, CommitPurge(g)
        PROVE  row'.exists /\ row'.sha = row.sha /\ (row.deleted => row'.deleted)
    BY <2>1, <2>5 DEF CommitPurge, RunRow
  <2>6. CASE UNCHANGED row
    BY <2>6
  <2> QED
    BY <2>2, <2>3, <2>4, <2>5, <2>6 DEF Next, InputChanges, Execute, CheckExisting, Compute,
       Truncate, WriteBytes, Abandon, Review, LoadForReview, Download, downloadVars,
       StartDownload, OpenVerified, RefuseDownload, Stream, StreamFails, Consume, consumeVars,
       RequireApproved, LoadCsv, Purge, ClaimPurge, Unlink, KeepFile, PurgeDies
<1> HIDE DEF A
<1>2. Spec => [][A]_vars
  BY <1>1, ArtifactTypes, PTL DEF Spec
<1> QED
  BY <1>2 DEF A, RecordIsImmutable

\* Only retention removes a file, and the row lock keeps the decision that
\* made the artifact eligible in force until it does.
THEOREM OnlyExpiredArePurged == Spec => PurgesOnlyExpired
<1> DEFINE A == file # Missing /\ file' = Missing =>
                   row.status \in Decisions /\ row.at[row.status] = "old"
<1>1. ArtifactInv /\ [Next]_vars => [A]_vars
  <2> SUFFICES ASSUME ArtifactInv, Next, file # Missing, file' = Missing
               PROVE  row.status \in Decisions /\ row.at[row.status] = "old"
    OBVIOUS
  <2>1. ASSUME NEW e \in Executors, Truncate(e) PROVE FALSE
    BY <2>1 DEF Truncate, Partial, Missing
  <2>2. ASSUME NEW e \in Executors, WriteBytes(e) PROVE FALSE
    BY <2>2, ArtifactsAssumption DEF WriteBytes, ArtifactInv, TypeInv, BytesHeld, Missing
  <2>3. ASSUME NEW g \in Purgers, Unlink(g)
        PROVE  row.status \in Decisions /\ row.at[row.status] = "old"
    BY <2>3 DEF Unlink, ArtifactInv, Purging, Idle
  <2>4. ASSUME UNCHANGED file PROVE FALSE
    BY <2>4
  <2> QED
    BY <2>1, <2>2, <2>3, <2>4 DEF Next, InputChanges, Execute, CheckExisting, Compute,
       CommitRun, Abandon, Review, LoadForReview, CommitReview, Download, downloadVars,
       StartDownload, OpenVerified, RefuseDownload, Stream, StreamFails, Consume, consumeVars,
       RequireApproved, LoadCsv, WindowPasses, Purge, ClaimPurge, KeepFile, CommitPurge, PurgeDies
<1> HIDE DEF A
<1>2. Spec => [][A]_vars
  BY <1>1, ArtifactInvariant, PTL DEF Spec
<1> QED
  BY <1>2 DEF A, PurgesOnlyExpired

=============================================================================
