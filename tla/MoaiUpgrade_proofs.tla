------------------------- MODULE MoaiUpgrade_proofs -------------------------
(***************************************************************************)
(* What is proved of MoaiUpgrade for every platform, directory, patch,     *)
(* number of query and download processes, of keys and of faults: types,   *)
(* that the key file and the flag of birdman keep moai and its forms on    *)
(* one key, and that the console of Windows does not praise an upgrade     *)
(* that left out files birdman had to replace.                             *)
(***************************************************************************)
EXTENDS MoaiUpgrade, SequenceTheorems, TLAPS

-----------------------------------------------------------------------------
(* The archive and what is in birdman/tmp.                                   *)

\* The lines are those of both sections.
LEMMA LineFacts ==
  /\ Lines \in Seq(STRING)
  /\ Len(Lines) = Len(Common) + Len(Section)
  /\ Len(Common) \in Nat /\ Len(Section) \in Nat /\ Len(Lines) \in Nat
<1>1. Common \in Seq(STRING) /\ Section \in Seq(STRING)
  BY UpgradeAssumption
<1> QED
  BY <1>1 DEF Lines

\* Birdman goes through a part of the lines.
LEMMA WalkedFacts == Walked \in 0 .. Len(Lines) /\ Walked \in Nat
  BY LineFacts DEF Walked

\* The archive is the list and the files of the patch; the tree has one more.
LEMMA ArchiveFacts ==
  /\ Len(Archive) = Len(Lines) + 1
  /\ Len(Tree) = Len(Lines) + 2
  /\ \A i \in 1 .. Len(Archive) : Archive[i] \in Items \cup {"list"}
<1> DEFINE S == STRING \cup {"list", "name"}
<1>0. STRING \subseteq S /\ "list" \in S /\ "name" \in S
  OBVIOUS
<1> HIDE DEF S
<1>1. Lines \in Seq(S)
  BY <1>0, LineFacts, SeqMonotonic
<1>2. /\ <<"list">> \in Seq(S) /\ Len(<<"list">>) = 1
      /\ <<"name">> \in Seq(S) /\ Len(<<"name">>) = 1
  BY <1>0
<1>3. Archive \in Seq(S) /\ Len(Archive) = Len(Lines) + 1
  BY <1>1, <1>2 DEF Archive
<1>4. Len(Tree) = Len(Lines) + 2
  BY <1>2, <1>3 DEF Tree
<1>5. ASSUME NEW i \in 1 .. Len(Archive)
      PROVE  Archive[i] \in Items \cup {"list"}
  <2>1. CASE i = 1
    BY <2>1, <1>1 DEF Archive
  <2>2. CASE i # 1
    <3>1. i - 1 \in 1 .. Len(Lines) /\ Archive[i] = Lines[i - 1]
      BY <2>2, <1>1, <1>2, <1>3, <1>5 DEF Archive
    <3> QED
      BY <3>1, <1>1 DEF Items
  <2> QED
    BY <2>1, <2>2
<1> QED
  BY <1>3, <1>4, <1>5

\* The next line of the list names a file of the patch.
LEMMA PathFacts ==
  ASSUME line \in 0 .. Len(Lines), line < Walked
  PROVE  Path \in Items /\ line + 1 \in 0 .. Len(Lines)
  BY LineFacts, WalkedFacts DEF Path, Items

-----------------------------------------------------------------------------
(* The keys.                                                                 *)

\* A query or download has another key than the newest one.
Refused(j) == jobs[j].key # issued

\* The file does not hold the newest key, and no form with it is or will be printed.
Unkept == ~kept /\ forms = {} /\ \A j \in Jobs : Refused(j)

\* Keys of the file and of jobs are not newer than the newest; the key in memory is
\* it or none; once chosen it is in the file, or refused to forms; the file that a
\* form came from stays, so that birdman works with a moai whose key it holds; the
\* flag is there for such a file only; who has no key may still issue one.
KeysOld ==
  /\ keyFile <= issued /\ key \in {0, issued}
  /\ \A j \in Jobs : jobs[j].key <= issued
KeyKept ==
  /\ pc \in {"put", "bind", "serving", "leave", "mark", "exec"} => key # 0
  /\ pc \in {"bind", "serving"} \/ (pc \in {"boot", "issue"} /\ key # 0) =>
       keyFile = key \/ Unkept
  /\ pc \in {"leave", "mark", "exec"} => keyFile = key
Passed ==
  /\ reuse => keyFile = issued /\ keyFile # 0
  /\ pc \in {"issue", "put", "bind", "serving", "leave", "mark"} => ~reuse
  /\ pc \in {"exec", "enter", "copy", "launch"} => (last # 0 => reuse /\ last = issued)
  /\ pc \in {"enter", "copy", "launch"} => key = 0
  /\ pc \in {"boot", "issue", "put", "bind", "serving"} /\ started = "birdman" /\ last # 0 =>
       /\ last = issued
       /\ key # 0 \/ (pc = "boot" /\ reuse)
Issuable ==
  /\ pc \in {"exec", "enter", "copy", "launch"} => reuse \/ issued < MaxKeys
  /\ pc = "boot" /\ key = 0 => reuse \/ issued < MaxKeys
  /\ pc = "issue" /\ key = 0 => issued < MaxKeys
Held == KeysOld /\ KeyKept /\ Passed /\ Issuable

\* Files that were gone through without a failure are installed, and the
\* console is told so only once all were.
Reported ==
  /\ pc \notin {"copy", "launch"} => ~ok
  /\ pc = "launch" /\ ok => line = Walked
  /\ platform = "windows" /\ ok => \A i \in 1 .. line : Lines[i] = "birdman" \/ Lines[i] \in fresh
  /\ platform = "windows" /\ console = "done" =>
       \A i \in 1 .. Walked : Lines[i] = "birdman" \/ Lines[i] \in fresh

\* The inductive invariant.
IInv == TypeOK /\ Held /\ Reported

-----------------------------------------------------------------------------
(* Types.                                                                    *)

At == {"none", "query", "download", "clean", "ask", "name", "open", "fetch", "extract"}

LEMMA LenLines == Len(Lines) \in Nat
  BY LineFacts

\* The lower ends of the counters.
LEMMA Zeros ==
  /\ MaxKeys \in Nat /\ MaxFaults \in Nat
  /\ 0 \in 0 .. MaxKeys /\ 0 \in 0 .. MaxFaults /\ 0 \in 0 .. Len(Lines)
  BY UpgradeAssumption, LenLines

LEMMA NoJobType == NoJob \in JobType
<1>1. 0 \in 0 .. MaxKeys /\ 0 \in 0 .. Len(Tree)
  BY UpgradeAssumption, LenLines, ArchiveFacts
<1> QED
  BY <1>1 DEF NoJob, JobType

\* What a query or download can become.
LEMMA JobFields ==
  ASSUME NEW r \in JobType
  PROVE  /\ \A at \in At : [r EXCEPT !.at = at] \in JobType
         /\ \A at \in At, n \in 0 .. Len(Tree) : [r EXCEPT !.at = at, !.idx = n] \in JobType
         /\ \A at \in At, k \in 0 .. MaxKeys : [r EXCEPT !.at = at, !.key = k] \in JobType
         /\ \A n \in 0 .. Len(Tree) : [r EXCEPT !.idx = n] \in JobType
  BY DEF JobType, At

\* Every step keeps the types.
LEMMA TypeStep ==
  ASSUME TypeOK, Held, [Next]_vars
  PROVE  TypeOK'
<1> USE DEF vars, process, keys, files, apply, page, place, env
<1>0. ASSUME Fault PROVE faults' \in 0 .. MaxFaults
  BY <1>0, Zeros DEF Fault, TypeOK
<1>1. ASSUME Start PROVE TypeOK'
  BY <1>1, Zeros DEF Start, TypeOK, Places
<1>2. ASSUME BootReuse PROVE TypeOK'
  BY <1>2 DEF BootReuse, TypeOK, Places, ReusedKey
<1>3. ASSUME BootNew PROVE TypeOK'
  BY <1>3 DEF BootNew, TypeOK, Places
<1>4. ASSUME IssueKey \/ IssueUnkept PROVE TypeOK'
  <2>1. OwnKey \in 0 .. MaxKeys
    <3>1. CASE key = 0
      <4>1. issued \in Nat /\ issued < MaxKeys
        BY <1>4, <3>1 DEF IssueKey, IssueUnkept, TakeKey, Held, Issuable, TypeOK
      <4> QED
        BY <3>1, <4>1, Zeros DEF OwnKey
    <3> QED
      BY <3>1 DEF OwnKey, TypeOK
  <2>2. issued' \in 0 .. MaxKeys /\ key' \in 0 .. MaxKeys
    BY <1>4, <2>1 DEF IssueKey, IssueUnkept, TakeKey, TypeOK
  <2>3. CASE IssueKey
    BY <2>3, <2>2, Zeros DEF IssueKey, TakeKey, TypeOK, Places
  <2>4. CASE IssueUnkept
    BY <2>4, <2>2, <1>0 DEF IssueUnkept, TakeKey, TypeOK, Places
  <2> QED
    BY <1>4, <2>3, <2>4
<1>5. ASSUME PutKey PROVE TypeOK'
  BY <1>5 DEF PutKey, TypeOK, Places, KeyPut
<1>6. ASSUME Bind PROVE TypeOK'
  BY <1>6 DEF Bind, TypeOK, Places
<1>7. ASSUME BindFail PROVE TypeOK'
  BY <1>7, Zeros DEF BindFail, TypeOK, Places
<1>8. ASSUME RestartServer PROVE TypeOK'
  BY <1>8 DEF RestartServer, TypeOK, Places
<1>9. ASSUME ShowPage PROVE TypeOK'
  BY <1>9 DEF ShowPage, TypeOK, Places
<1>10. ASSUME PressApply PROVE TypeOK'
  BY <1>10 DEF PressApply, TypeOK, Places
<1>11. ASSUME Mark PROVE TypeOK'
  BY <1>11 DEF Mark, TypeOK, Places
<1>12. ASSUME Exec PROVE TypeOK'
  BY <1>12, Zeros DEF Exec, TypeOK, Places
<1>13. ASSUME OldEnds PROVE TypeOK'
  BY <1>13 DEF OldEnds, TypeOK, Places
<1>14. ASSUME EnterList PROVE TypeOK'
  BY <1>14, Zeros DEF EnterList, TypeOK, Places
<1>15. ASSUME EnterNone PROVE TypeOK'
  BY <1>15 DEF EnterNone, TypeOK, Places
<1>16. ASSUME Applied PROVE TypeOK'
  BY <1>16 DEF Applied, TypeOK, Places, Verdict
<1>17. ASSUME Launch PROVE TypeOK'
  <2>1. faults' \in 0 .. MaxFaults
    BY <1>17, <1>0 DEF Launch, TypeOK
  <2> QED
    BY <1>17, <2>1, Zeros DEF Launch, TypeOK, Places, Verdict
<1>18. ASSUME Crash PROVE TypeOK'
  BY <1>18, <1>0, Zeros DEF Crash, TypeOK, Places
<1>26. ASSUME BootUnread \/ Unmarked \/ ExecFail PROVE TypeOK'
  BY <1>26, <1>0, Zeros DEF BootUnread, Unmarked, ExecFail, TypeOK, Places
<1>27. ASSUME NoSection PROVE TypeOK'
  BY <1>27, Zeros DEF NoSection, TypeOK, Places
<1>19. ASSUME TakeBirdman PROVE TypeOK'
  BY <1>19 DEF TakeBirdman, TypeOK, Places, NewBirdman
<1>20. ASSUME Skip \/ Copy \/ CopyFail PROVE TypeOK'
  <2>1. NextLine
    BY <1>20 DEF Skip, Copy, CopyFail
  <2>2. Path \in Items /\ line' \in 0 .. Len(Lines)
    BY <2>1, PathFacts DEF NextLine, TypeOK
  <2>3. fresh' \subseteq Items
    BY <1>20, <2>2 DEF Skip, Copy, CopyFail, TypeOK
  <2>4. ok' \in BOOLEAN
    BY <1>20 DEF Skip, Copy, CopyFail, NotCopied, TypeOK
  <2> QED
    BY <2>1, <2>2, <2>3, <2>4 DEF NextLine, TypeOK
<1>21. ASSUME NEW j \in Jobs, PressQuery(j) \/ PressDownload(j) PROVE TypeOK'
  <2>1. [NoJob EXCEPT !.at = "query"] \in JobType /\ [NoJob EXCEPT !.at = "download"] \in JobType
    BY NoJobType, JobFields DEF At
  <2>2. jobs' \in [Jobs -> JobType]
    BY <1>21, <2>1 DEF PressQuery, PressDownload, StartJob, TypeOK
  <2> QED
    BY <1>21, <2>2 DEF PressQuery, PressDownload, StartJob, TypeOK
<1>22. ASSUME NEW j \in Jobs, JobCrash(j) PROVE TypeOK'
  <2>1. jobs' \in [Jobs -> JobType]
    BY <1>22, NoJobType DEF JobCrash, End, TypeOK
  <2> QED
    BY <1>22, <2>1, <1>0 DEF JobCrash, TypeOK
<1>23. ASSUME NEW j \in Jobs, Job(j) PROVE TypeOK'
  <2>1. jobs[j] \in JobType
    BY DEF TypeOK
  <2>2. \A r \in JobType : [jobs EXCEPT ![j] = r] \in [Jobs -> JobType]
    BY DEF TypeOK
  <2>3. jobs[j].key \in 0 .. MaxKeys /\ jobs[j].idx \in 0 .. Len(Tree) /\ jobs[j].at \in At
    BY <2>1 DEF JobType, At
  <2>4. 0 \in 0 .. Len(Tree)
    BY LenLines, ArchiveFacts
  <2>5. ASSUME End(j) PROVE jobs' \in [Jobs -> JobType]
    BY <2>2, <2>5, NoJobType DEF End
  <2>6. ASSUME NEW at \in At, Step(j, at) PROVE jobs' \in [Jobs -> JobType]
    <3>1. [jobs[j] EXCEPT !.at = at] \in JobType
      BY <2>1, JobFields
    <3> QED
      BY <2>2, <2>6, <3>1 DEF Step, TypeOK
  <2>7. ASSUME LoadKey(j) PROVE TypeOK'
    <3>1. jobs' \in [Jobs -> JobType]
      <4>1. /\ [jobs[j] EXCEPT !.at = "clean", !.key = keyFile] \in JobType
            /\ [jobs[j] EXCEPT !.at = "open", !.key = keyFile] \in JobType
            /\ [jobs[j] EXCEPT !.at = "clean", !.key = 0] \in JobType
            /\ [jobs[j] EXCEPT !.at = "open", !.key = 0] \in JobType
        BY <2>1, JobFields, Zeros DEF TypeOK, At
      <4>2. PICK at \in {"clean", "open"}, k \in {0, keyFile} :
              jobs' = [jobs EXCEPT ![j] = [jobs[j] EXCEPT !.at = at, !.key = k]]
        BY <2>7 DEF LoadKey, TypeOK
      <4>3. [jobs[j] EXCEPT !.at = at, !.key = k] \in JobType
        BY <4>1
      <4> QED
        BY <2>2, <4>2, <4>3
    <3>2. faults' \in 0 .. MaxFaults
      BY <2>7, <1>0 DEF LoadKey, TypeOK
    <3> QED
      BY <2>7, <3>1, <3>2 DEF LoadKey, TypeOK
  <2>8. ASSUME Clean(j) PROVE TypeOK'
    <3>1. jobs[j].idx + 1 \in 0 .. Len(Tree)
      BY <2>3, <2>8, LenLines, ArchiveFacts DEF Clean
    <3>2. [jobs[j] EXCEPT !.idx = jobs[j].idx + 1] \in JobType
      BY <2>1, <3>1, JobFields
    <3>3. jobs' \in [Jobs -> JobType]
      BY <2>2, <2>8, <3>2 DEF Clean, TypeOK
    <3> QED
      BY <2>8, <3>3 DEF Clean, TypeOK
  <2>9. ASSUME Cleaned(j) PROVE TypeOK'
    <3>1. [jobs[j] EXCEPT !.at = "ask", !.idx = 0] \in JobType
      BY <2>1, <2>4, JobFields DEF At
    <3>2. jobs' \in [Jobs -> JobType]
      BY <2>2, <2>9, <3>1 DEF Cleaned, TypeOK
    <3> QED
      BY <2>9, <3>2 DEF Cleaned, TypeOK
  <2>10. ASSUME AnswerNo(j) PROVE TypeOK'
    BY <2>5, <2>10 DEF AnswerNo, TypeOK
  <2>11. ASSUME AnswerYes(j) PROVE TypeOK'
    BY <2>6, <2>11 DEF AnswerYes, PrintForm, TypeOK, At
  <2>12. ASSUME WriteName(j) PROVE TypeOK'
    BY <2>5, <2>12 DEF WriteName, TypeOK
  <2>13. ASSUME OpenName(j) PROVE TypeOK'
    BY <2>5, <2>6, <2>13 DEF OpenName, TypeOK, At
  <2>14. ASSUME Fetched(j) PROVE TypeOK'
    BY <2>6, <2>14 DEF Fetched, TypeOK, At
  <2>15. ASSUME FetchFail(j) PROVE TypeOK'
    BY <2>5, <2>15 DEF FetchFail, TypeOK
  <2>16. ASSUME Extract(j) PROVE TypeOK'
    <3>1. jobs[j].idx + 1 \in 1 .. Len(Archive) /\ jobs[j].idx + 1 \in 0 .. Len(Tree)
      BY <2>3, <2>16, LenLines, ArchiveFacts DEF Extract
    <3>2. [jobs[j] EXCEPT !.idx = jobs[j].idx + 1] \in JobType
      BY <2>1, <3>1, JobFields
    <3>3. jobs' \in [Jobs -> JobType]
      BY <2>2, <2>16, <3>2 DEF Extract, TypeOK
    <3>4. tmp' \subseteq Items \cup {"list", "name"}
      BY <2>16, <3>1, ArchiveFacts DEF Extract, TypeOK
    <3> QED
      BY <2>16, <3>3, <3>4 DEF Extract, TypeOK
  <2>17. ASSUME Extracted(j) PROVE TypeOK'
    BY <2>5, <2>17 DEF Extracted, PrintForm, TypeOK
  <2>18. ASSUME NoModule(j) PROVE TypeOK'
    BY <2>5, <2>18 DEF NoModule, TypeOK
  <2> QED
    BY <1>23, <2>7, <2>8, <2>9, <2>10, <2>11, <2>12, <2>13, <2>14, <2>15, <2>16,
       <2>17, <2>18 DEF Job
<1>24. ASSUME UNCHANGED vars PROVE TypeOK'
  BY <1>24 DEF TypeOK
<1> QED
  BY <1>1, <1>2, <1>3, <1>4, <1>5, <1>6, <1>7, <1>8, <1>9, <1>10, <1>11, <1>12, <1>13,
     <1>14, <1>15, <1>16, <1>17, <1>18, <1>19, <1>20, <1>21, <1>22, <1>23, <1>24, <1>26, <1>27
  DEF Next, Run, Boot, Hand, Apply, User

-----------------------------------------------------------------------------
(* The steps that the keys and the report are not touched by.                *)

\* Queries and downloads, the page, the lines of the list and the end of the
\* replaced process leave keys and process alone; all but the first leave the
\* jobs and their forms alone as well.
LEMMA OthersKeepKeys ==
  ASSUME ShowPage \/ OldEnds \/ Skip \/ Copy \/ CopyFail \/ UNCHANGED vars
  PROVE  UNCHANGED <<process, keys, jobs, forms>>
  BY DEF ShowPage, OldEnds, Skip, Copy, CopyFail, NextLine, vars, page

LEMMA JobsKeepKeys ==
  ASSUME NEW j \in Jobs, PressQuery(j) \/ PressDownload(j) \/ Job(j) \/ JobCrash(j)
  PROVE  UNCHANGED <<process, keys>>
<1>1. ASSUME PressQuery(j) \/ PressDownload(j) \/ JobCrash(j)
      PROVE  UNCHANGED <<process, keys>>
  BY <1>1 DEF PressQuery, PressDownload, StartJob, JobCrash
<1>2. ASSUME Job(j)
      PROVE  UNCHANGED <<process, keys>>
  BY <1>2 DEF Job, LoadKey, NoModule, Clean, Cleaned, AnswerNo, AnswerYes, WriteName,
     OpenName, Fetched,
     FetchFail, Extract, Extracted
<1> QED
  BY <1>1, <1>2

\* The key of a query or download is its own, that of the file, or none; only with
\* the newest key a form is accepted.
LEMMA JobsKeys ==
  ASSUME TypeOK, NEW j \in Jobs, PressQuery(j) \/ PressDownload(j) \/ Job(j) \/ JobCrash(j)
  PROVE  /\ \A i \in Jobs : jobs'[i].key \in {0, keyFile, jobs[i].key}
         /\ jobs[j].key # issued => forms' = forms
<1> USE DEF page
<1>1. jobs \in [Jobs -> JobType] /\ \A i \in Jobs : jobs[i] \in JobType
  BY DEF TypeOK
<1>2. ASSUME NEW at, jobs' = [jobs EXCEPT ![j].at = at]
      PROVE  \A i \in Jobs : jobs'[i].key = jobs[i].key
  BY <1>1, <1>2 DEF JobType
<1>3. ASSUME NEW n, jobs' = [jobs EXCEPT ![j].idx = n]
      PROVE  \A i \in Jobs : jobs'[i].key = jobs[i].key
  BY <1>1, <1>3 DEF JobType
<1>4. ASSUME End(j)
      PROVE  \A i \in Jobs : jobs'[i].key \in {0, jobs[i].key}
  BY <1>1, <1>4 DEF End, NoJob
<1>5. ASSUME NEW at, StartJob(j, at)
      PROVE  (\A i \in Jobs : jobs'[i].key \in {0, jobs[i].key}) /\ forms' = forms
  BY <1>1, <1>5 DEF StartJob, NoJob
<1>6. ASSUME LoadKey(j)
      PROVE  (\A i \in Jobs : jobs'[i].key \in {0, keyFile, jobs[i].key}) /\ forms' = forms
  <2>1. PICK k \in {0, keyFile}, at \in {"clean", "open"} :
          jobs' = [jobs EXCEPT ![j] = [jobs[j] EXCEPT !.at = at, !.key = k]]
    BY <1>1, <1>6 DEF LoadKey
  <2>2. \A i \in Jobs : jobs'[i].key \in {k, jobs[i].key}
    BY <1>1, <2>1 DEF JobType
  <2> QED
    BY <1>6, <2>2 DEF LoadKey
<1>7. ASSUME NoModule(j) \/ AnswerNo(j) \/ WriteName(j) \/ FetchFail(j) \/ JobCrash(j)
      PROVE  (\A i \in Jobs : jobs'[i].key \in {0, jobs[i].key}) /\ forms' = forms
  BY <1>4, <1>7 DEF NoModule, AnswerNo, WriteName, FetchFail, JobCrash
<1>8. ASSUME Clean(j)
      PROVE  (\A i \in Jobs : jobs'[i].key = jobs[i].key) /\ forms' = forms
  BY <1>1, <1>8 DEF Clean, JobType
<1>9. ASSUME Cleaned(j)
      PROVE  (\A i \in Jobs : jobs'[i].key = jobs[i].key) /\ forms' = forms
  BY <1>1, <1>9 DEF Cleaned, JobType
<1>10. ASSUME AnswerYes(j)
      PROVE  /\ \A i \in Jobs : jobs'[i].key = jobs[i].key
             /\ jobs[j].key # issued => forms' = forms
  BY <1>2, <1>10 DEF AnswerYes, PrintForm, Step
<1>11. ASSUME OpenName(j) \/ Fetched(j)
      PROVE  (\A i \in Jobs : jobs'[i].key \in {0, jobs[i].key}) /\ forms' = forms
  BY <1>2, <1>4, <1>11 DEF OpenName, Fetched, Step
<1>12. ASSUME Extract(j)
      PROVE  (\A i \in Jobs : jobs'[i].key = jobs[i].key) /\ forms' = forms
  BY <1>1, <1>12 DEF Extract, JobType
<1>13. ASSUME Extracted(j)
      PROVE  /\ \A i \in Jobs : jobs'[i].key \in {0, jobs[i].key}
             /\ jobs[j].key # issued => forms' = forms
  BY <1>4, <1>13 DEF Extracted, PrintForm
<1>14. CASE PressQuery(j) \/ PressDownload(j)
  BY <1>14, <1>5 DEF PressQuery, PressDownload
<1>15. CASE Job(j)
  BY <1>15, <1>6, <1>7, <1>8, <1>9, <1>10, <1>11, <1>12, <1>13 DEF Job
<1> QED
  BY <1>7, <1>14, <1>15

\* A query or download never says that an upgrade is done.
LEMMA JobsKeepReport ==
  ASSUME \E j \in Jobs : PressQuery(j) \/ PressDownload(j) \/ Job(j) \/ JobCrash(j)
  PROVE  /\ UNCHANGED <<place, pc, line, ok, fresh>>
         /\ console' \in {console, "busy", "fail", "download", "apply"}
<1> USE DEF process, files, apply, page, place, env
<1>1. ASSUME NEW j \in Jobs, PressQuery(j) \/ PressDownload(j) \/ JobCrash(j)
      PROVE  UNCHANGED <<place, pc, line, ok, fresh, console>>
  BY <1>1 DEF PressQuery, PressDownload, StartJob, JobCrash
<1>2. ASSUME NEW j \in Jobs, Job(j)
      PROVE  UNCHANGED <<place, pc, line, ok, fresh>>
  BY <1>2 DEF Job, LoadKey, NoModule, Clean, Cleaned, AnswerNo, AnswerYes, WriteName,
     OpenName, Fetched,
     FetchFail, Extract, Extracted
<1>3. ASSUME NEW j \in Jobs, Job(j)
      PROVE  console' \in {console, "busy", "fail", "download", "apply"}
  BY <1>3 DEF Job, LoadKey, NoModule, Clean, Cleaned, AnswerNo, AnswerYes, PrintForm,
     WriteName, OpenName,
     Fetched, FetchFail, Extract, Extracted
<1> QED
  BY <1>1, <1>2, <1>3

-----------------------------------------------------------------------------
(* Every step keeps the keys.                                                *)

LEMMA HeldStep ==
  ASSUME TypeOK, Held, [Next]_vars
  PROVE  Held'
<1> USE DEF process, keys, page, Held, KeysOld, KeyKept, Passed, Issuable, Unkept, Refused
<1>1. ASSUME UNCHANGED <<process, keys, jobs, forms>> PROVE Held'
  BY <1>1
<1>2. ASSUME NEW j \in Jobs, PressQuery(j) \/ PressDownload(j) \/ Job(j) \/ JobCrash(j)
      PROVE  Held'
  <2>1. UNCHANGED <<process, keys>>
    BY <1>2, JobsKeepKeys
  <2>2. \A i \in Jobs : jobs'[i].key \in {0, keyFile, jobs[i].key}
    BY <1>2, JobsKeys
  <2>3. \A i \in Jobs : jobs'[i].key <= issued
    BY <2>2 DEF TypeOK
  <2>4. Unkept /\ key # 0 /\ keyFile # key => Unkept'
    <3>1. Unkept => forms' = forms
      BY <1>2, JobsKeys
    <3> QED
      BY <2>1, <2>2, <3>1
  <2>5. KeyKept'
    <3>1. pc \in {"bind", "serving"} => key # 0
      OBVIOUS
    <3>2. pc \in {"bind", "serving"} \/ (pc \in {"boot", "issue"} /\ key # 0) =>
            keyFile = key \/ Unkept'
      BY <2>4, <3>1
    <3> QED
      BY <2>1, <3>2
  <2>6. Passed' /\ Issuable'
    BY <2>1
  <2> QED
    BY <2>1, <2>3, <2>5, <2>6
<1>3. ASSUME Start PROVE Held'
  BY <1>3 DEF Start, TypeOK
<1>4. ASSUME BootReuse PROVE Held'
  BY <1>4 DEF BootReuse, TypeOK, ReusedKey
<1>5. ASSUME BootUnread PROVE Held'
  BY <1>5 DEF BootUnread, TypeOK
<1>6. ASSUME BootNew PROVE Held'
  BY <1>6 DEF BootNew, TypeOK
<1>7. ASSUME TakeKey PROVE
       /\ key' = issued' /\ key' # 0 /\ issued <= issued'
       /\ key # 0 => UNCHANGED <<key, issued, forms>>
       /\ key = 0 => forms' = {} /\ issued < issued'
       /\ UNCHANGED <<started, last, reuse, jobs>>
  <2>1. key \in {0, issued} /\ issued \in Nat
    BY DEF TypeOK
  <2> QED
    BY <1>7, <2>1 DEF TakeKey, OwnKey
<1>8. ASSUME IssueKey PROVE Held'
  <2>1. /\ \A i \in Jobs : jobs[i].key \in Nat /\ jobs[i].key <= issued
        /\ issued \in Nat /\ issued' \in Nat
    BY <1>7, <1>8 DEF IssueKey, TakeKey, OwnKey, TypeOK, JobType
  <2>2. KeysOld'
    <3>1. \A i \in Jobs : jobs'[i].key <= issued'
      <4>1. jobs' = jobs /\ issued <= issued'
        BY <1>7, <1>8 DEF IssueKey
      <4> QED
        BY <2>1, <4>1
    <3>2. keyFile' = 0 /\ key' = issued' /\ issued' \in Nat
      BY <1>7, <1>8 DEF IssueKey, TakeKey, OwnKey, TypeOK
    <3> QED
      BY <3>1, <3>2
  <2>3. KeyKept' /\ Issuable'
    BY <1>7, <1>8 DEF IssueKey
  <2>4. Passed'
    BY <1>7, <1>8 DEF IssueKey, TakeKey
  <2> QED
    BY <2>2, <2>3, <2>4
<1>9. ASSUME IssueUnkept PROVE Held'
  <2>1. /\ \A i \in Jobs : jobs[i].key \in Nat /\ jobs[i].key <= issued
        /\ issued \in Nat /\ issued' \in Nat /\ keyFile \in Nat
    BY <1>7, <1>9 DEF IssueUnkept, TakeKey, OwnKey, TypeOK, JobType
  <2>2. KeysOld'
    BY <1>7, <1>9, <2>1 DEF IssueUnkept
  <2>3. CASE key = 0
    <3>1. Unkept'
      BY <1>7, <1>9, <2>1, <2>3 DEF IssueUnkept
    <3> QED
      BY <1>7, <1>9, <2>2, <2>3, <3>1 DEF IssueUnkept, TakeKey
  <2>4. CASE key # 0
    <3>1. keyFile = key \/ Unkept
      BY <1>9, <2>4 DEF IssueUnkept, TakeKey
    <3>2. keyFile' = key' \/ Unkept'
      BY <1>7, <1>9, <2>4, <3>1 DEF IssueUnkept
    <3> QED
      BY <1>7, <1>9, <2>2, <2>4, <3>2 DEF IssueUnkept, TakeKey
  <2> QED
    BY <2>3, <2>4
<1>10. ASSUME PutKey PROVE Held'
  BY <1>10 DEF PutKey, TypeOK, KeyPut
<1>11. ASSUME Bind PROVE Held'
  BY <1>11 DEF Bind, TypeOK
<1>12. ASSUME BindFail PROVE Held'
  BY <1>12 DEF BindFail, TypeOK
<1>13. ASSUME RestartServer PROVE Held'
  BY <1>13 DEF RestartServer, TypeOK
<1>14. ASSUME PressApply PROVE Held'
  BY <1>14 DEF PressApply, Valid, TypeOK
<1>15. ASSUME TakeBirdman PROVE Held'
  BY <1>15 DEF TakeBirdman, TypeOK
<1>16. ASSUME Mark PROVE Held'
  BY <1>16 DEF Mark, TypeOK
<1>17. ASSUME Unmarked PROVE Held'
  BY <1>17 DEF Unmarked, TypeOK
<1>18. ASSUME Exec PROVE Held'
  BY <1>18 DEF Exec, TypeOK
<1>19. ASSUME ExecFail PROVE Held'
  BY <1>19 DEF ExecFail, TypeOK
<1>20. ASSUME EnterList \/ EnterNone PROVE Held'
  BY <1>20 DEF EnterList, EnterNone, TypeOK
<1>21. ASSUME Applied PROVE Held'
  BY <1>21 DEF Applied, TypeOK
<1>22. ASSUME NoSection PROVE Held'
  BY <1>22 DEF NoSection, TypeOK
<1>23. ASSUME Launch PROVE Held'
  BY <1>23 DEF Launch, TypeOK
<1>24. ASSUME Crash PROVE Held'
  BY <1>24 DEF Crash, TypeOK
<1> QED
  BY OthersKeepKeys, <1>1, <1>2, <1>3, <1>4, <1>5, <1>6, <1>8, <1>9, <1>10, <1>11,
     <1>12, <1>13, <1>14, <1>15, <1>16, <1>17, <1>18, <1>19, <1>20, <1>21, <1>22, <1>23, <1>24
  DEF Next, Run, Boot, Hand, Apply, User

-----------------------------------------------------------------------------
(* Every step keeps the report.                                              *)

LEMMA ReportedStep ==
  ASSUME TypeOK, Reported, [Next]_vars
  PROVE  Reported'
<1> USE DEF process, files, apply, page, place, env, Walked
<1>1. ASSUME UNCHANGED <<place, line, ok, fresh, console>>,
             pc' = pc \/ {pc, pc'} \cap {"copy", "launch"} = {}
      PROVE  Reported'
  BY <1>1 DEF Reported
<1>2. ASSUME \E j \in Jobs : PressQuery(j) \/ PressDownload(j) \/ Job(j) \/ JobCrash(j)
      PROVE  Reported'
  BY <1>2, JobsKeepReport DEF Reported
<1>3. ASSUME \/ Start \/ BootReuse \/ BootUnread \/ BootNew \/ IssueKey \/ IssueUnkept \/ PutKey
             \/ Bind \/ BindFail \/ RestartServer \/ PressApply \/ Mark \/ Unmarked \/ Exec
             \/ ExecFail \/ OldEnds \/ UNCHANGED vars
      PROVE  Reported'
  BY <1>1, <1>3 DEF Start, BootReuse, BootUnread, BootNew, IssueKey, IssueUnkept, TakeKey, PutKey,
     Bind, BindFail, RestartServer, PressApply, Mark, Unmarked, Exec, ExecFail, OldEnds, vars
<1>4. ASSUME ShowPage PROVE Reported'
  BY <1>4 DEF ShowPage, Reported
<1>5. ASSUME TakeBirdman PROVE Reported'
  <2>1. fresh \subseteq fresh' /\ ~ok /\ ~ok'
    BY <1>5 DEF TakeBirdman, Reported
  <2> QED
    BY <1>5, <2>1 DEF TakeBirdman, Reported
<1>6. ASSUME EnterList PROVE Reported'
  BY <1>6 DEF EnterList, Reported
<1>7. ASSUME EnterNone PROVE Reported'
  BY <1>7 DEF EnterNone, Reported
<1>8. ASSUME Skip \/ Copy \/ CopyFail PROVE Reported'
  <2>1. /\ pc = "copy" /\ pc' = pc /\ line' = line + 1 /\ line \in Nat /\ fresh \subseteq fresh'
        /\ platform' = platform /\ console' = "busy"
    BY <1>8 DEF Skip, Copy, CopyFail, NextLine, TypeOK
  <2>2. platform = "windows" /\ ok' => ok /\ (Path = "birdman" \/ Path \in fresh')
    BY <1>8 DEF Skip, Copy, CopyFail, NotCopied
  <2>3. ASSUME platform = "windows", ok', NEW i \in 1 .. line'
        PROVE  Lines[i] = "birdman" \/ Lines[i] \in fresh'
    <3>1. CASE i \in 1 .. line
      BY <2>1, <2>2, <2>3, <3>1 DEF Reported
    <3>2. CASE i = line + 1
      BY <2>2, <2>3, <3>2 DEF Path
    <3> QED
      BY <2>1, <3>1, <3>2
  <2> QED
    BY <2>1, <2>3 DEF Reported
<1>9. ASSUME Applied PROVE Reported'
  BY <1>9 DEF Applied, Verdict, Reported
<1>10. ASSUME Launch PROVE Reported'
  BY <1>10 DEF Launch, Verdict, Reported
<1>11. ASSUME Crash \/ NoSection PROVE Reported'
  BY <1>11 DEF Crash, NoSection, Reported
<1> QED
  BY <1>2, <1>3, <1>4, <1>5, <1>6, <1>7, <1>8, <1>9, <1>10, <1>11
  DEF Next, Run, Boot, Hand, Apply, User

-----------------------------------------------------------------------------
(* The theorems.                                                             *)

LEMMA Initially == Init => IInv
<1> SUFFICES ASSUME Init PROVE IInv
  OBVIOUS
<1>1. TypeOK
  <2>1. <<platform, dir>> \in Hosts
    BY UpgradeAssumption DEF Init
  <2> QED
    BY <2>1, Zeros, NoJobType DEF Init, TypeOK, Places
<1>2. Held
  BY DEF Init, Held, KeysOld, KeyKept, Passed, Issuable, NoJob
<1>3. Reported
  BY Zeros DEF Init, Reported
<1> QED
  BY <1>1, <1>2, <1>3 DEF IInv

LEMMA Inductive == Spec => []IInv
<1>1. IInv /\ [Next]_vars => IInv'
  BY TypeStep, HeldStep, ReportedStep DEF IInv
<1> QED
  BY Initially, <1>1, PTL DEF Spec

\* The variables of the process life cycle keep their types.
THEOREM TypeCorrect == Spec => []TypeOK
<1>1. IInv => TypeOK
  BY DEF IInv
<1> QED
  BY Inductive, <1>1, PTL

\* While moai serves, it has the newest key and the key file holds it, whatever is
\* killed while the key is written, handed over or taken over; or the file could
\* not be opened, and then no form is accepted.
THEOREM KeyFileAgreesHolds == Spec => []KeyFileAgrees
<1>1. IInv => KeyFileAgrees
  BY DEF IInv, Held, KeysOld, KeyKept, Unkept, KeyFileAgrees
<1> QED
  BY Inductive, <1>1, PTL

\* The moai that birdman starts serves with the key of the one it replaced, if the
\* flag and the file could be opened.
THEOREM KeyContinuesHolds == Spec => []KeyContinues
<1>1. IInv => KeyContinues
  BY DEF IInv, Held, KeysOld, KeyKept, Passed, KeyContinues
<1> QED
  BY Inductive, <1>1, PTL

\* On Windows the console says "done" only if all files that birdman goes through,
\* but birdman's own, are those of the patch: for a patch of any files in both
\* sections and a directory of any name.
THEOREM ReportTrueHolds == Spec => []ReportTrue
<1>1. IInv => ReportTrue
  BY DEF IInv, Reported, ReportTrue, Wanted
<1> QED
  BY Inductive, <1>1, PTL
=============================================================================
