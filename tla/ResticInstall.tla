--------------------------- MODULE ResticInstall ---------------------------
(***************************************************************************)
(* Before a command the plugin makes sure that the restic it manages itself *)
(* is there and not too old: it probes the version of the one installed and *)
(* downloads the trusted release from one mirror after the other, verifies  *)
(* it, unpacks it into a file beside the target and renames that file.      *)
(*                                                                          *)
(* The mirrors answer as they like: not at all, in part, with something     *)
(* else, slowly.  The process may die at any step.  The file beside the     *)
(* target is named after the process only, so two threads share it.         *)
(*                                                                          *)
(* Its names are not those of ResticProcess: the proofs extend both modules.*)
(***************************************************************************)
EXTENDS Integers, Sequences, FiniteSets

CONSTANTS Installers,  \* threads that may run a command at the same time
          Urls,        \* number of candidates: GitHub, the own mirror, the proxies
          Trusted,     \* the trusted version, a sequence of numbers
          Versions,    \* versions that may be installed already
          Base,        \* more than any part of them, to weigh them by
          MaxCrashes   \* bound: times the process dies

ASSUME InstallAssumption ==
  /\ IsFiniteSet(Installers) /\ Urls \in Nat /\ MaxCrashes \in Nat /\ Base \in Nat
  /\ Trusted \in Versions /\ \A v \in Versions : v \in Seq(0..(Base - 1)) /\ Len(v) > 0

VARIABLES
  doing,     \* doing[i]: where installer i is
  url,       \* url[i]: the candidate it is at
  archive,   \* archive[i]: what its download left in its temporary directory
  file,      \* file[i]: the file it has open, or NoFile
  content,   \* content[f]: what file f holds
  beside,    \* the file that bears the name target_path.tmp-<pid>, or NoFile
  target,    \* the file that bears the name target_path, or NoFile
  crashes

installVars == <<doing, url, archive, file, content, beside, target, crashes>>

NoFile == 0
Files  == 1..(Cardinality(Installers) + 2)
Place  == {"idle", "probe", "fetch", "drip", "verify", "open", "write", "rename", "undo"}
Empty  == <<>>                        \* not a version: nothing that could run
Exists == target # NoFile

InstallInit ==
  /\ doing = [i \in Installers |-> "idle"] /\ url = [i \in Installers |-> 1]
  /\ archive = [i \in Installers |-> "none"] /\ file = [i \in Installers |-> NoFile]
  /\ beside = NoFile /\ crashes = 0
  /\ \/ target = NoFile /\ content = [f \in Files |-> Empty]
     \/ /\ target = 1
        /\ \E v \in Versions : content = [f \in Files |-> IF f = 1 THEN v ELSE Empty]

Goes(i, place) == doing' = [doing EXCEPT ![i] = place]
-----------------------------------------------------------------------------
(* compare_restic_versions: part by part, the missing ones are zeros. *)
Longer(a, b) == IF Len(a) > Len(b) THEN Len(a) ELSE Len(b)
Padded(v, width) == [n \in 1..width |-> IF n <= Len(v) THEN v[n] ELSE 0]

(* Mistake: the missing parts are not made up for, as in Python's own order. *)
LessByTuple(a, b) ==
  \E n \in 1..Len(b) :
    /\ \A m \in 1..(n - 1) : m <= Len(a) /\ a[m] = b[m]
    /\ n <= Len(a) => a[n] < b[n]

Less(a, b) ==
  LET width == Longer(a, b)
      left  == Padded(a, width)
      right == Padded(b, width)
  IN \E n \in 1..width : left[n] < right[n] /\ \A m \in 1..(n - 1) : left[m] = right[m]

(* ensure_default_restic_executable_available: the executable is not the managed *)
(* one, the system's is preferred, or no release is made for this platform;      *)
NothingToEnsure(i) == doing[i] = "idle" /\ UNCHANGED installVars

(* there is none yet; or there is one. *)
Install(i) ==
  /\ doing[i] = "idle" /\ ~Exists /\ Goes(i, "fetch") /\ url' = [url EXCEPT ![i] = 1]
  /\ UNCHANGED <<archive, file, content, beside, target, crashes>>

Probe(i) ==
  /\ doing[i] = "idle" /\ Exists /\ Goes(i, "probe")
  /\ UNCHANGED <<url, archive, file, content, beside, target, crashes>>

(* What does not run or print a version is left as it is, and so is what is new  *)
(* enough.                                                                        *)
Keep(i) ==
  /\ doing[i] = "probe" /\ Goes(i, "idle")
  /\ UNCHANGED <<url, archive, file, content, beside, target, crashes>>

Upgrade(i) ==
  /\ doing[i] = "probe" /\ Exists /\ content[target] # Empty /\ Less(content[target], Trusted)
  /\ Goes(i, "fetch") /\ url' = [url EXCEPT ![i] = 1]
  /\ UNCHANGED <<archive, file, content, beside, target, crashes>>

(* download_file: the stream ends somewhere, or it drips. *)
Fetch(i) ==
  /\ doing[i] = "fetch" /\ url[i] <= Urls
  /\ \/ \E got \in {"release", "part", "other"} :
          archive' = [archive EXCEPT ![i] = got] /\ Goes(i, "verify")
     \/ archive' = [archive EXCEPT ![i] = "part"] /\ Goes(i, "drip")
  /\ UNCHANGED <<url, file, content, beside, target, crashes>>

NextUrl(i) == Goes(i, "fetch") /\ url' = [url EXCEPT ![i] = @ + 1]

(* Mistake: only a single read has a time limit. *)
DripsOn(i) == doing[i] = "drip" /\ UNCHANGED installVars

(* The connection fails, or the deadline of the attempt has passed. *)
GivesUp(i) ==
  /\ doing[i] = "drip" \/ (doing[i] = "fetch" /\ url[i] <= Urls)
  /\ NextUrl(i)
  /\ UNCHANGED <<archive, file, content, beside, target, crashes>>

(* Every candidate failed: an error, which an upgrade turns into a warning. *)
OutOfUrls(i) ==
  /\ doing[i] = "fetch" /\ url[i] > Urls /\ Goes(i, "idle")
  /\ UNCHANGED <<url, archive, file, content, beside, target, crashes>>

(* Mistake: an archive that can be unpacked is taken for the release. *)
NotBroken(i) == archive[i] # "part"

(* verify_restic_download: the digest that came with the plugin. *)
Genuine(i) == archive[i] = "release"

Verify(i) ==
  /\ doing[i] = "verify"
  /\ IF Genuine(i) THEN Goes(i, "open") /\ UNCHANGED url ELSE NextUrl(i)
  /\ UNCHANGED <<archive, file, content, beside, target, crashes>>
-----------------------------------------------------------------------------
(* install_restic_archive.  Opening truncates what has the name already. *)
InUse == {beside, target} \union {file[i] : i \in Installers}

(* Mistake: the archive is unpacked over the target itself. *)
OpenTarget(i) ==
  /\ doing[i] = "open" /\ Goes(i, "write")
  /\ \E f \in Files :
       /\ IF Exists THEN f = target ELSE f \notin InUse
       /\ file' = [file EXCEPT ![i] = f] /\ content' = [content EXCEPT ![f] = Empty]
       /\ target' = f
  /\ UNCHANGED <<url, archive, beside, crashes>>

Open(i) ==
  /\ doing[i] = "open" /\ Goes(i, "write")
  /\ \E f \in Files :
       /\ IF beside # NoFile THEN f = beside ELSE f \notin InUse
       /\ file' = [file EXCEPT ![i] = f] /\ content' = [content EXCEPT ![f] = Empty]
       /\ beside' = f
  /\ UNCHANGED <<url, archive, target, crashes>>

Unpacked(i) == IF archive[i] = "release" THEN Trusted ELSE Empty

Unpack(i) ==
  /\ doing[i] = "write"
  /\ \/ Goes(i, "rename") /\ content' = [content EXCEPT ![file[i]] = Unpacked(i)]
     \/ Goes(i, "undo") /\ UNCHANGED content            \* the disk is full
  /\ file' = [file EXCEPT ![i] = NoFile]
  /\ UNCHANGED <<url, archive, beside, target, crashes>>

(* os.replace; the name is gone if another thread has renamed it. *)
Rename(i) ==
  /\ doing[i] = "rename"
  /\ \/ /\ beside # NoFile /\ target' = beside /\ beside' = NoFile /\ Goes(i, "idle")
        /\ archive' = [archive EXCEPT ![i] = "none"]
     \/ Goes(i, "undo") /\ UNCHANGED <<target, beside, archive>>
  /\ UNCHANGED <<url, file, content, crashes>>

(* remove_quietly, and on to the next candidate. *)
Undo(i) ==
  /\ doing[i] = "undo" /\ beside' = NoFile /\ NextUrl(i)
  /\ UNCHANGED <<archive, file, content, target, crashes>>

(* The process dies; the next one has another number and so another name. *)
Crash ==
  /\ crashes < MaxCrashes /\ crashes' = crashes + 1
  /\ doing' = [i \in Installers |-> "idle"] /\ file' = [i \in Installers |-> NoFile]
  /\ archive' = [i \in Installers |-> "none"] /\ beside' = NoFile
  /\ UNCHANGED <<url, content, target>>
-----------------------------------------------------------------------------
Steps(i) == \/ Keep(i) \/ Upgrade(i) \/ Fetch(i) \/ GivesUp(i) \/ OutOfUrls(i) \/ Verify(i)
            \/ Open(i) \/ Unpack(i) \/ Rename(i) \/ Undo(i)

InstallNext == \/ Crash
               \/ \E i \in Installers : NothingToEnsure(i) \/ Install(i) \/ Probe(i) \/ Steps(i)

InstallSpec == InstallInit /\ [][InstallNext]_installVars

FairInstallSpec == InstallSpec /\ \A i \in Installers : WF_installVars(Steps(i))
-----------------------------------------------------------------------------
InstallTypeOK ==
  /\ doing \in [Installers -> Place] /\ url \in [Installers -> 1..(Urls + 1)]
  /\ archive \in [Installers -> {"none", "release", "part", "other"}]
  /\ file \in [Installers -> Files \union {NoFile}]
  /\ content \in [Files -> Versions \union {Empty}]
  /\ beside \in Files \union {NoFile} /\ target \in Files \union {NoFile} /\ crashes \in Nat

(* comment at restic_download.py:567: however a download, an unpacking or the    *)
(* process is interrupted, what bears the target's name can be run; so whether   *)
(* the name exists is all that the next command asks.                             *)
TargetRuns == Exists => content[target] # Empty

(* Only what is older than the trusted release is replaced by it: 0.18.0 is not  *)
(* older than 0.18, and nothing that an administrator put there is downgraded.   *)
Weight(v) == LET p == Padded(v, 3) IN (p[1] * Base + p[2]) * Base + p[3]
NoDowngrade ==
  [][Exists /\ target' # target => Weight(content[target]) < Weight(content'[target'])]_installVars

(* Whatever the mirrors do, the command that waits for its restic goes on.       *)
EnsureEnds == \A i \in Installers : doing[i] # "idle" ~> doing[i] = "idle"
=============================================================================
