------------------------------ MODULE MoaiUpgrade ------------------------------
(***************************************************************************)
(* The life cycle of the Moai process and its upgrade: moai/main.c, the    *)
(* authentic key of MoaiServer_main, the upgrade commands of the web       *)
(* server, and birdman, which runs beside moai to query and download, and  *)
(* in its place to apply.                                                  *)
(*                                                                         *)
(* What they share is files, and nothing locks them: authentic_key.dat,    *)
(* the flag __authentic_key_reuse__, birdman/tmp, the installed files and  *)
(* state.dat, which the page of the console polls.  A file is written in   *)
(* one step; wording, versions and the contents of patches are left out.   *)
(* A file of keys that cannot be opened and a program that cannot be       *)
(* started are faults, as is a process that is killed.                     *)
(***************************************************************************)
EXTENDS Integers, Sequences

CONSTANTS
  Hosts,      \* where Moai is installed: the build and the kind of directory
  Common,     \* the files of a patch in the order of apply_list.myf: those of
  Section,    \* its section "common", and those of the platform's own section
  Jobs,       \* the query and download processes that may run at once
  MaxKeys,    \* bound on the keys that are ever issued
  MaxFaults   \* bound on the faults

\* RanoVTagUtil_getPlatformID takes the platform from the name of the directory.
\* "section": the list has a section for it (moai-v2.2-win64, or a name that does
\* not begin with moai); "bare": no platform is found (moai, moai-v2.2);
\* "other": the list has no such section (moai-v2.2-win64-copy).
DirKinds == {"section", "bare", "other"}
\* Android is like Linux.
Platforms == {"windows", "cygwin", "linux"}

\* "moai" and "birdman" are the two programs, "vtag" is the version.
Lines == Common \o Section
Items == {Lines[i] : i \in DOMAIN Lines}

\* The archive brings apply_list.myf, "list", and then the files; they are in a
\* directory of birdman/tmp which is walked before patch_basename.dat, "name".
Archive == <<"list">> \o Lines
Tree == Archive \o <<"name">>

ASSUME UpgradeAssumption ==
  /\ Hosts \subseteq Platforms \X DirKinds
  /\ Common \in Seq(STRING) /\ Section \in Seq(STRING)
  /\ "list" \notin Items /\ "name" \notin Items
  /\ MaxKeys \in Nat \ {0}
  /\ MaxFaults \in Nat

VARIABLES
  platform,  \* the build
  dir,       \* what the name of the directory leads to
  pc,        \* where the resident process is: moai, or birdman upgrade_apply
  started,   \* who started the present moai: "user" or "birdman"
  key,       \* st_authentic_key; 0: none
  last,      \* the key that the moai started by birdman is to go on with; 0: none,
             \* or the flag or the file could not be opened
  keyFile,   \* authentic_key.dat; 0: absent or empty
  reuse,     \* is there a file __authentic_key_reuse__?
  issued,    \* keys issued so far
  kept,      \* could moai open authentic_key.dat when it last was to write it?
  jobs,      \* the birdman processes that query or download
  tmp,       \* what is in birdman/tmp ("name": patch_basename.dat)
  fresh,     \* the installed files that are those of the patch
  line,      \* lines of both sections that birdman has gone through
  ok,        \* result of applyFiles
  console,   \* doc_root/state.dat
  forms,     \* forms that were printed with the newest key
  linger,    \* has the replaced moai process not ended yet?
  faults     \* faults so far

process == <<pc, started, key, last>>
keys == <<keyFile, reuse, issued, kept>>
files == <<tmp, fresh>>
apply == <<line, ok>>
page == <<console, forms>>
place == <<platform, dir>>
env == <<place, faults>>
vars == <<process, keys, jobs, files, apply, page, linger, env>>

-----------------------------------------------------------------------------
NoJob == [at |-> "none", key |-> 0, idx |-> 0]
Running(j) == jobs[j].at # "none"
Idle == \A j \in Jobs : ~Running(j)

\* Something fails.
Fault ==
  /\ faults < MaxFaults
  /\ faults' = faults + 1

Init ==
  /\ \E host \in Hosts : platform = host[1] /\ dir = host[2]
  /\ pc = "down" /\ started = "user" /\ key = 0 /\ last = 0
  /\ keyFile = 0 /\ reuse = FALSE /\ issued = 0 /\ kept = TRUE
  /\ jobs = [j \in Jobs |-> NoJob]
  /\ tmp = {} /\ fresh = {}
  /\ line = 0 /\ ok = FALSE
  /\ console = "none" /\ forms = {}
  /\ linger = FALSE /\ faults = 0

-----------------------------------------------------------------------------
\* moai, from its start to select.

\* The user starts moai.
Start ==
  /\ pc = "down" /\ issued < MaxKeys
  /\ pc' = "boot" /\ started' = "user" /\ key' = 0
  /\ UNCHANGED <<last, keys, jobs, files, apply, page, linger, env>>

\* Mutant: the flag is deleted, but the key is not taken over.
ReusedKeyNot == key
\* The key of the file, if the flag asks for it and there is one.
ReusedKey == IF keyFile # 0 THEN keyFile ELSE key

\* __authentic_key_reuse__: the key of the file is taken, the flag deleted.
BootReuse ==
  /\ pc = "boot" /\ reuse
  /\ key' = ReusedKey
  /\ reuse' = FALSE
  /\ pc' = IF keyFile # 0 THEN "bind" ELSE "issue"
  /\ UNCHANGED <<started, last, keyFile, issued, kept, jobs, files, apply, page, linger, env>>

\* The file cannot be opened.
BootUnread ==
  /\ pc = "boot" /\ reuse
  /\ Fault /\ (key = 0 => issued < MaxKeys)
  /\ last' = 0
  /\ reuse' = FALSE
  /\ pc' = "issue"
  /\ UNCHANGED <<started, key, keyFile, issued, kept, jobs, files, apply, page, linger, place>>

BootNew ==
  /\ pc = "boot" /\ ~reuse
  /\ pc' = "issue"
  /\ UNCHANGED <<started, key, last, keys, jobs, files, apply, page, linger, env>>

\* Mutant: a server that restarts issues a new key each time.
OwnKeyAnew == issued + 1
\* MoaiServerInfo_authenticKey: issued at first use, then kept in memory.
OwnKey == IF key = 0 THEN issued + 1 ELSE key

TakeKey ==
  /\ pc = "issue"
  /\ key' = OwnKey
  /\ issued' = IF OwnKey > issued THEN OwnKey ELSE issued
  /\ forms' = IF OwnKey > issued THEN {} ELSE forms
  /\ UNCHANGED <<started, last, reuse, jobs, files, apply, console, linger, place>>

\* The file is truncated, and then written.
IssueKey ==
  /\ TakeKey
  /\ keyFile' = 0 /\ kept' = TRUE
  /\ pc' = "put"
  /\ UNCHANGED faults

\* The file cannot be opened and stays as it was; moai goes on.
IssueUnkept ==
  /\ TakeKey /\ Fault
  /\ kept' = FALSE
  /\ pc' = "bind"
  /\ UNCHANGED keyFile

\* Mutant: a key that is not new is not written.
KeyPutNew == IF started = "user" THEN key ELSE keyFile
KeyPut == key

PutKey ==
  /\ pc = "put"
  /\ keyFile' = KeyPut
  /\ pc' = "bind"
  /\ UNCHANGED <<started, key, last, reuse, issued, kept, jobs, files, apply, page, linger, env>>

\* On Unix a child has inherited the listening sockets, and keeps the ports.
PortsTaken == platform # "windows" /\ ~Idle

Bind ==
  /\ pc = "bind" /\ ~PortsTaken
  /\ pc' = "serving"
  /\ UNCHANGED <<started, key, last, keys, jobs, files, apply, page, linger, env>>

\* MoaiServer_main returns Ignored and the process ends.
BindFail ==
  /\ pc = "bind" /\ PortsTaken
  /\ pc' = "down" /\ key' = 0
  /\ UNCHANGED <<started, last, keys, jobs, files, apply, page, linger, env>>

-----------------------------------------------------------------------------
\* The web server.

\* RestartServer: MoaiServer_main is entered again in the same process.
RestartServer ==
  /\ pc = "serving"
  /\ pc' = "boot"
  /\ UNCHANGED <<started, key, last, keys, jobs, files, apply, page, linger, env>>

\* GET /config?mode=upgrade
ShowPage ==
  /\ pc = "serving"
  /\ console' = "none"
  /\ UNCHANGED <<process, keys, jobs, files, apply, forms, linger, env>>

\* A form with another key than moai's is answered by 403.
Valid(form) == form \in forms /\ key = issued

StartJob(j, at) ==
  /\ ~Running(j)
  /\ jobs' = [jobs EXCEPT ![j] = [NoJob EXCEPT !.at = at]]
  /\ UNCHANGED <<process, keys, files, apply, page, linger, env>>

\* The query form is on every page.
PressQuery(j) == pc = "serving" /\ StartJob(j, "query")
PressDownload(j) == pc = "serving" /\ Valid("download") /\ StartJob(j, "download")

PressApply ==
  /\ pc = "serving" /\ Valid("apply")
  /\ pc' = "leave"
  /\ UNCHANGED <<started, key, last, keys, jobs, files, apply, page, linger, env>>

-----------------------------------------------------------------------------
\* RestartProcess: moai gives way to birdman.

\* The path of birdman.exe; the one without .exe is appended to it, so that
\* it never exists.  The platform is that of the directory's name here too.
NewBirdman ==
  {"name", "birdman"} \subseteq tmp /\ platform # "linux" /\ dir = "section"

\* The copy may fail, and does while a birdman runs; nobody looks.
TakeBirdman ==
  /\ pc = "leave"
  /\ \/ NewBirdman /\ Idle /\ fresh' = fresh \cup {"birdman"}
     \/ fresh' = fresh
  /\ pc' = "mark"
  /\ UNCHANGED <<started, key, last, keys, jobs, tmp, apply, page, linger, env>>

Mark ==
  /\ pc = "mark"
  /\ reuse' = TRUE
  /\ last' = key
  /\ pc' = "exec"
  /\ UNCHANGED <<started, key, keyFile, issued, kept, jobs, files, apply, page, linger, env>>

\* The flag cannot be written; the next moai will need another key.
Unmarked ==
  /\ pc = "mark" /\ Fault /\ issued < MaxKeys
  /\ last' = 0
  /\ pc' = "exec"
  /\ UNCHANGED <<started, key, keys, jobs, files, apply, page, linger, place>>

\* On Windows and Cygwin the old process may still be ending.
Exec ==
  /\ pc = "exec"
  /\ key' = 0
  /\ linger' \in {FALSE, platform # "linux"}
  /\ pc' = "enter"
  /\ UNCHANGED <<started, last, keys, jobs, files, apply, page, env>>

\* birdman cannot be started; moai has nothing left to do.
ExecFail ==
  /\ pc = "exec" /\ Fault
  /\ key' = 0
  /\ pc' = "down"
  /\ UNCHANGED <<started, last, keys, jobs, files, apply, page, linger, place>>

OldEnds ==
  /\ linger
  /\ linger' = FALSE
  /\ UNCHANGED <<process, keys, jobs, files, apply, page, env>>

-----------------------------------------------------------------------------
\* birdman upgrade_apply.

\* Without patch_basename.dat or the list nothing is applied.
Listed == {"name", "list"} \subseteq tmp

EnterList ==
  /\ pc = "enter" /\ Listed
  /\ pc' = "copy" /\ line' = 0 /\ ok' = TRUE
  /\ console' = "busy"
  /\ UNCHANGED <<started, key, last, keys, jobs, files, forms, linger, env>>

EnterNone ==
  /\ pc = "enter" /\ ~Listed
  /\ pc' = "launch"
  /\ console' = "fail"
  /\ UNCHANGED <<started, key, last, keys, jobs, files, apply, forms, linger, env>>

\* The file of the next line.
Path == Lines[line + 1]

\* The lines to go through: those of the platform only if it was found.
Walked == IF dir = "section" THEN Len(Lines) ELSE Len(Common)

NextLine ==
  /\ pc = "copy" /\ line < Walked
  /\ line' = line + 1
  /\ console' = "busy"
  /\ UNCHANGED <<process, keys, jobs, tmp, forms, linger, env>>

\* skip_self
Skip == NextLine /\ Path = "birdman" /\ UNCHANGED <<fresh, ok>>

\* Copying may always fail; it does if the file is not there any more, and for
\* moai itself while its old process has not ended.
Copyable == Path \in tmp /\ ~(Path = "moai" /\ linger)

Copy ==
  /\ NextLine /\ Path # "birdman" /\ Copyable
  /\ fresh' = fresh \cup {Path}
  /\ ok' = ok

\* Mutant: the result is that of the last line only.
NotCopiedLast == line + 1 # Walked
\* On Unix the exit status of cp is not looked at.
NotCopied == IF platform = "windows" THEN FALSE ELSE ok

CopyFail ==
  /\ NextLine /\ Path # "birdman"
  /\ ok' = NotCopied
  /\ fresh' = fresh

\* A section that was not looked for is no failure.
Verdict == IF ok THEN "done" ELSE "fail"

Applied ==
  /\ pc = "copy" /\ line = Walked /\ dir # "other"
  /\ console' = Verdict
  /\ pc' = "launch"
  /\ UNCHANGED <<started, key, last, keys, jobs, files, apply, forms, linger, env>>

\* A section that is not in the list: applyCore reads through a null pointer.
NoSection ==
  /\ pc = "copy" /\ line = Walked /\ dir = "other"
  /\ pc' = "down"
  /\ line' = 0 /\ ok' = FALSE
  /\ UNCHANGED <<started, key, last, keys, jobs, files, page, linger, env>>

\* Mutant: moai is only started again after a success.
LaunchedOk == ok
Launched == TRUE

\* The text is written once more, and moai started whatever it says.
Launch ==
  /\ pc = "launch" /\ Launched
  /\ console' = Verdict
  /\ ok' = FALSE /\ line' = 0
  /\ \/ pc' = "boot" /\ started' = "birdman" /\ UNCHANGED faults
     \/ Fault /\ pc' = "down" /\ UNCHANGED started  \* moai cannot be started
  /\ UNCHANGED <<key, last, keys, jobs, files, forms, linger, place>>

-----------------------------------------------------------------------------
\* birdman upgrade_query and upgrade_download, beside moai.

Step(j, at) == jobs' = [jobs EXCEPT ![j].at = at]
End(j) == jobs' = [jobs EXCEPT ![j] = NoJob]

\* The console gets a form; with another key than the newest it is refused.
PrintForm(j, form) ==
  /\ console' = form
  /\ forms' = IF jobs[j].key = issued THEN forms \cup {form} ELSE forms

LoadKey(j) ==
  /\ jobs[j].at \in {"query", "download"}
  /\ \E k \in {0, keyFile} :
       /\ jobs' = [jobs EXCEPT ![j] =
            [@ EXCEPT !.at = IF @ = "query" THEN "clean" ELSE "open", !.key = k]]
       /\ IF k = keyFile THEN UNCHANGED faults ELSE Fault  \* it cannot be opened
  /\ UNCHANGED <<process, keys, files, apply, page, linger, place>>

\* The network or its module cannot be had; the console is told nothing.
NoModule(j) ==
  /\ jobs[j].at \in {"clean", "open"} /\ jobs[j].idx = 0
  /\ End(j)
  /\ UNCHANGED <<process, keys, files, apply, page, linger, env>>

\* RanoDirUtil_removeDir, file by file.
Clean(j) ==
  /\ jobs[j].at = "clean" /\ jobs[j].idx < Len(Tree)
  /\ tmp' = tmp \ {Tree[jobs[j].idx + 1]}
  /\ jobs' = [jobs EXCEPT ![j].idx = @ + 1]
  /\ UNCHANGED <<process, keys, fresh, apply, page, linger, env>>

Cleaned(j) ==
  /\ jobs[j].at = "clean" /\ jobs[j].idx = Len(Tree)
  /\ console' = "busy"
  /\ jobs' = [jobs EXCEPT ![j].at = "ask", ![j].idx = 0]
  /\ UNCHANGED <<process, keys, files, apply, forms, linger, env>>

\* vtag_rule cannot be had, or says that vtag is the newest version.
AnswerNo(j) ==
  /\ jobs[j].at = "ask"
  /\ console' = "fail"
  /\ End(j)
  /\ UNCHANGED <<process, keys, files, apply, forms, linger, env>>

\* The form is printed before patch_basename.dat is there.
AnswerYes(j) ==
  /\ jobs[j].at = "ask" /\ "vtag" \notin fresh
  /\ PrintForm(j, "download")
  /\ Step(j, "name")
  /\ UNCHANGED <<process, keys, files, apply, linger, env>>

WriteName(j) ==
  /\ jobs[j].at = "name"
  /\ tmp' = tmp \cup {"name"}
  /\ End(j)
  /\ UNCHANGED <<process, keys, fresh, apply, page, linger, env>>

OpenName(j) ==
  /\ jobs[j].at = "open"
  /\ \/ "name" \in tmp /\ console' = "busy" /\ Step(j, "fetch")
     \/ "name" \notin tmp /\ console' = "fail" /\ End(j)
  /\ UNCHANGED <<process, keys, files, apply, forms, linger, env>>

Fetched(j) ==
  /\ jobs[j].at = "fetch"
  /\ Step(j, "extract")
  /\ console' = "busy"
  /\ UNCHANGED <<process, keys, files, apply, forms, linger, env>>

\* The download or an entry of the archive fails.
FetchFail(j) ==
  /\ jobs[j].at \in {"fetch", "extract"}
  /\ console' = "fail"
  /\ End(j)
  /\ UNCHANGED <<process, keys, files, apply, forms, linger, env>>

Extract(j) ==
  /\ jobs[j].at = "extract" /\ jobs[j].idx < Len(Archive)
  /\ tmp' = tmp \cup {Archive[jobs[j].idx + 1]}
  /\ jobs' = [jobs EXCEPT ![j].idx = @ + 1]
  /\ console' = "busy"
  /\ UNCHANGED <<process, keys, fresh, apply, forms, linger, env>>

Extracted(j) ==
  /\ jobs[j].at = "extract" /\ jobs[j].idx = Len(Archive)
  /\ PrintForm(j, "apply")
  /\ End(j)
  /\ UNCHANGED <<process, keys, files, apply, linger, env>>

-----------------------------------------------------------------------------
\* The resident process, or a job, is killed.
Crash ==
  /\ pc # "down" /\ Fault
  /\ pc' = "down" /\ key' = 0
  /\ line' = 0 /\ ok' = FALSE
  /\ UNCHANGED <<started, last, keys, jobs, files, page, linger, place>>

JobCrash(j) ==
  /\ Running(j) /\ Fault
  /\ End(j)
  /\ UNCHANGED <<process, keys, files, apply, page, linger, place>>

\* The steps of the resident process that nobody has to ask for.
Boot ==
  BootReuse \/ BootUnread \/ BootNew \/ IssueKey \/ IssueUnkept \/ PutKey \/ Bind \/ BindFail
Hand == TakeBirdman \/ Mark \/ Unmarked \/ Exec \/ ExecFail \/ OldEnds
Apply ==
  EnterList \/ EnterNone \/ Skip \/ Copy \/ CopyFail \/ Applied \/ NoSection \/ Launch
Job(j) ==
  \/ LoadKey(j) \/ NoModule(j) \/ Clean(j) \/ Cleaned(j) \/ AnswerNo(j) \/ AnswerYes(j)
  \/ WriteName(j) \/ OpenName(j) \/ Fetched(j) \/ FetchFail(j) \/ Extract(j) \/ Extracted(j)
User ==
  \/ Start \/ RestartServer \/ ShowPage \/ PressApply
  \/ \E j \in Jobs : PressQuery(j) \/ PressDownload(j)

Run == Boot \/ Hand \/ Apply
Next == Run \/ User \/ Crash \/ \E j \in Jobs : Job(j) \/ JobCrash(j)

Spec == Init /\ [][Next]_vars

\* A process that can go on does, whatever the user does.
FairSpec == Spec /\ WF_vars(Run) /\ \A j \in Jobs : WF_vars(Job(j))

-----------------------------------------------------------------------------
\* Properties

\* Type invariant.
Places == {"down", "boot", "issue", "put", "bind", "serving", "leave", "mark", "exec",
           "enter", "copy", "launch"}
JobType ==
  [at : {"none", "query", "download", "clean", "ask", "name", "open", "fetch", "extract"},
   key : 0 .. MaxKeys, idx : 0 .. Len(Tree)]
TypeOK ==
  /\ <<platform, dir>> \in Hosts
  /\ pc \in Places /\ started \in {"user", "birdman"}
  /\ key \in 0 .. MaxKeys /\ last \in 0 .. MaxKeys
  /\ keyFile \in 0 .. MaxKeys /\ issued \in 0 .. MaxKeys
  /\ reuse \in BOOLEAN /\ kept \in BOOLEAN /\ ok \in BOOLEAN /\ linger \in BOOLEAN
  /\ jobs \in [Jobs -> JobType]
  /\ tmp \subseteq Items \cup {"list", "name"}
  /\ fresh \subseteq Items /\ line \in 0 .. Len(Lines)
  /\ console \in {"none", "busy", "fail", "done", "download", "apply"}
  /\ forms \subseteq {"download", "apply"}
  /\ faults \in 0 .. MaxFaults

\* While moai serves, it has the newest key and the file from which birdman takes
\* the key for its forms holds it: after a restart of the server, an upgrade, a
\* kill at any step of either.  If the file could not be opened, moai serves with
\* another key than the file's, but then accepts no form that birdman printed.
KeyFileAgrees ==
  pc = "serving" =>
    /\ key # 0 /\ key = issued
    /\ keyFile = key \/ (~kept /\ forms = {})

\* The moai that birdman starts goes on with the key of the one it replaced, so
\* that pages the browser still has stay valid; unless the flag or the file cannot
\* be opened.
KeyContinues == pc = "serving" /\ started = "birdman" /\ last # 0 => key = last

\* On Windows the console says that all is done only if every file that birdman
\* had to replace was, birdman itself left out, whatever queries remove meanwhile
\* and whatever fails.  It does not have to replace those of a platform that the
\* directory's name does not lead to.
Wanted == {Lines[i] : i \in 1 .. Walked} \ {"birdman"}
ReportTrue == platform = "windows" /\ console = "done" => Wanted \subseteq fresh

\* On Windows moai comes back from an upgrade, unless something fails, or the
\* directory is named for a section that the list does not have.
Resumed ==
  platform = "windows" /\ dir # "other" /\ pc = "leave"
    ~> pc = "serving" \/ (pc = "down" /\ faults > 0)

\* Moai comes back from an upgrade unless something fails.
ServesAgain == pc = "leave" ~> pc = "serving" \/ faults > 0

\* On Windows an upgrade that is said to be done has replaced all files of the
\* patch, birdman left out.
AllReplaced == platform = "windows" /\ console = "done" => Items \ {"birdman"} \subseteq fresh
=============================================================================
