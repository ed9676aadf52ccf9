------------------------------- MODULE Packages -------------------------------
(***************************************************************************)
(* The manifest and the lockfile of a project, and the processes that edit *)
(* them: pkg/manager/manager.go and cmdAdd of cmd/nil/main.go.  A step     *)
(* ends where a file is read or written; a process may be killed between   *)
(* two steps, or while it writes, which leaves the file empty.  A manifest *)
(* is its lines, a name the sequence of its parts (with the quotes around  *)
(* it, when it is written with quotes), a version a range and a number.    *)
(***************************************************************************)
EXTENDS Naturals, SequencesExt, TLC

CONSTANTS
  Processes,
  Names,      \* packages the processes add and remove
  Versions,   \* constraints they add them with
  Manifests,  \* the manifests a project may begin with
  Locks,      \* the lockfiles it may begin with
  MaxRuns,    \* bound: commands run
  Absent      \* no such file

VARIABLES
  manifest,   \* the files alap.yaml and nilx.yaml
  lock,       \* the files alap.lock and nilx.lock
  pc,         \* where each process is
  path,       \* the manifest each process edits
  text,       \* the lines each process has in hand
  installs,   \* whether each process goes on to Install
  runs,       \* how many commands have begun
  alone,      \* history: whether each process has been the only one since it began
  settled     \* history: whether the last command installed, and ran alone

vars == <<manifest, lock, pc, path, text, installs, runs, alone, settled>>

Flavours == {"alap", "nilx"}

------------------------------------------------------------------------------
(* Files                                                                   *)

ManifestPath ==
  IF manifest["alap"] = Absent /\ manifest["nilx"] # Absent THEN "nilx" ELSE "alap"

LockfilePath ==
  IF lock["alap"] = Absent /\ (lock["nilx"] # Absent \/ manifest["nilx"] # Absent)
  THEN "nilx" ELSE "alap"

------------------------------------------------------------------------------
(* Lines                                                                   *)

Line(indented, key, value) == [indented |-> indented, key |-> key, value |-> value]

NoValue == [range |-> "", number |-> ""]
Header  == Line(FALSE, <<"dependencies">>, NoValue)
Entry(name, version) == Line(TRUE, name, version)

IsHeader(line) == line.key = <<"dependencies">>

\* A line that ends no section.
Within(line) == line.indented \/ line.key = <<>>

\* Whether line i is in a section of dependencies: the last line before it that
\* is not indented began one.
InDependencies(lines, i) ==
  \E h \in 1..(i - 1) : IsHeader(lines[h]) /\ \A j \in (h + 1)..(i - 1) : Within(lines[j])

\* The lines that list a package.
Listed(lines) ==
  {i \in DOMAIN lines : /\ lines[i].indented
                        /\ lines[i].key # <<>>
                        /\ ~IsHeader(lines[i])
                        /\ lines[i].value # NoValue
                        /\ InDependencies(lines, i)}

\* A package that is listed twice has the version of its last line.
ParseDependencies(lines) ==
  LET LastOf(name) == CHOOSE i \in Listed(lines) :
                        /\ lines[i].key = name
                        /\ \A j \in Listed(lines) : lines[j].key = name => j <= i
  IN  [name \in {lines[i].key : i \in Listed(lines)} |-> lines[LastOf(name)].value]

\* Slip: the package listed at the end of the file.
AddedLast(lines, name, version) ==
  IF \E i \in DOMAIN lines : IsHeader(lines[i]) THEN Append(lines, Entry(name, version))
  ELSE lines \o <<Header, Entry(name, version)>>

\* The package is listed first, or in a new section when there is none.
Added(lines, name, version) ==
  IF \E i \in DOMAIN lines : IsHeader(lines[i])
  THEN FlattenSeq([i \in DOMAIN lines |->
                     IF IsHeader(lines[i]) THEN <<lines[i], Entry(name, version)>> ELSE <<lines[i]>>])
  ELSE lines \o <<Header, Entry(name, version)>>

\* Every line goes that has the name before a colon, at the end of its key.
Removed(lines, name) ==
  FlattenSeq([i \in DOMAIN lines |->
                IF IsSuffix(name, lines[i].key) THEN <<>> ELSE <<lines[i]>>])

\* What Install locks: the version without its range, and a checksum of both.
Locked(deps) ==
  [name \in DOMAIN deps |-> [version |-> deps[name].number, integrity |-> <<name, deps[name]>>]]

\* What Add writes when it can read no manifest.
NewManifest == <<Line(FALSE, <<"name">>, [range |-> "", number |-> "my-app"]), Header>>

\* No section has a name that is a package's, or ends in it: Remove would take
\* the line it begins with, and leave its lines to the section before.
ASSUME PackagesAssumption ==
  /\ \A lines \in Manifests : lines \in Seq(Range(lines))
  /\ NoValue \notin Versions
  /\ \A name \in Names :
       /\ name \in Seq(Range(name)) /\ name # <<>> /\ name # Header.key
       /\ \A lines \in Manifests \cup {NewManifest} : \A i \in DOMAIN lines :
            IsHeader(lines[i]) \/ ~Within(lines[i]) => ~IsSuffix(name, lines[i].key)

------------------------------------------------------------------------------
(* Commands                                                                *)

Goto(p, from, to) == pc[p] = from /\ pc' = [pc EXCEPT ![p] = to]

\* The command of p is over, and what it had in hand forgotten.
Ends(p, from) ==
  /\ Goto(p, from, "idle")
  /\ path' = [path EXCEPT ![p] = "alap"]
  /\ text' = [text EXCEPT ![p] = <<>>]
  /\ installs' = [installs EXCEPT ![p] = FALSE]
  /\ alone' = [alone EXCEPT ![p] = FALSE]
  /\ UNCHANGED runs

Begin(p, to) ==
  /\ Goto(p, "idle", to)
  /\ runs < MaxRuns
  /\ runs' = runs + 1
  /\ alone' = [q \in Processes |-> q = p /\ \A r \in Processes : pc[r] = "idle"]
  /\ settled' = FALSE

\* The process has read the manifest and will write these lines instead.
Edits(p, lines, goesOn) ==
  /\ Begin(p, "edit")
  /\ path' = [path EXCEPT ![p] = ManifestPath]
  /\ text' = [text EXCEPT ![p] = lines]
  /\ installs' = [installs EXCEPT ![p] = goesOn]
  /\ UNCHANGED <<manifest, lock>>

Add(p, name, version) ==
  LET lines == manifest[ManifestPath] IN
  Edits(p, Added(IF lines = Absent THEN NewManifest ELSE lines, name, version), TRUE)

\* Without a manifest Remove returns an error.
RemovePackage(p, name) ==
  /\ manifest[ManifestPath] # Absent
  /\ Edits(p, Removed(manifest[ManifestPath], name), TRUE)

\* "nil add" leaves the lockfile to "nil pm".
CmdAdd(p, name) ==
  /\ manifest[ManifestPath] # Absent
  /\ Edits(p, Added(manifest[ManifestPath], name, [range |-> "^", number |-> "0.1.0"]), FALSE)

Install(p) ==
  /\ Begin(p, "install")
  /\ UNCHANGED <<manifest, lock, path, text, installs>>

WriteManifest(p) ==
  /\ \/ /\ installs[p]
        /\ Goto(p, "edit", "install")
        /\ UNCHANGED <<path, text, installs, runs, alone>>
     \/ ~installs[p] /\ Ends(p, "edit")
  /\ manifest' = [manifest EXCEPT ![path[p]] = text[p]]
  /\ UNCHANGED <<lock, settled>>

\* Install finds and reads the manifest once more.
ReadManifest(p) ==
  /\ Goto(p, "install", "lock")
  /\ manifest[ManifestPath] # Absent
  /\ text' = [text EXCEPT ![p] = manifest[ManifestPath]]
  /\ UNCHANGED <<manifest, lock, path, installs, runs, alone, settled>>

NoManifest(p) ==
  /\ Ends(p, "install")
  /\ manifest[ManifestPath] = Absent
  /\ UNCHANGED <<manifest, lock, settled>>

\* Slip: what was locked before is kept.
WriteLockKeeps(p) ==
  /\ Ends(p, "lock")
  /\ lock' = [lock EXCEPT ![LockfilePath] =
                Locked(ParseDependencies(text[p])) @@ IF @ = Absent THEN <<>> ELSE @]
  /\ settled' = alone[p]
  /\ UNCHANGED manifest

WriteLock(p) ==
  /\ Ends(p, "lock")
  /\ lock' = [lock EXCEPT ![LockfilePath] = Locked(ParseDependencies(text[p]))]
  /\ settled' = alone[p]
  /\ UNCHANGED manifest

\* A write fails and its error is returned, or the process is killed: before it
\* writes, or with the file emptied and nothing written to it yet.
Fail(p) ==
  /\ pc[p] # "idle"
  /\ Ends(p, pc[p])
  /\ \/ UNCHANGED <<manifest, lock>>
     \/ /\ pc[p] = "edit"
        /\ manifest' = [manifest EXCEPT ![path[p]] = <<>>]
        /\ UNCHANGED lock
     \/ /\ pc[p] = "lock"
        /\ lock' = [lock EXCEPT ![LockfilePath] = <<>>]
        /\ UNCHANGED manifest
  /\ UNCHANGED settled

------------------------------------------------------------------------------

Init ==
  /\ manifest \in [Flavours -> Manifests \cup {Absent}]
  /\ lock \in [Flavours -> Locks \cup {Absent}]
  /\ pc = [p \in Processes |-> "idle"]
  /\ path = [p \in Processes |-> "alap"]
  /\ text = [p \in Processes |-> <<>>]
  /\ installs = [p \in Processes |-> FALSE]
  /\ runs = 0
  /\ alone = [p \in Processes |-> FALSE]
  /\ settled = FALSE

Next ==
  \E p \in Processes :
    \/ Install(p) \/ WriteManifest(p) \/ ReadManifest(p) \/ NoManifest(p) \/ WriteLock(p) \/ Fail(p)
    \/ \E name \in Names : RemovePackage(p, name) \/ CmdAdd(p, name) \/ \E v \in Versions : Add(p, name, v)

Spec == Init /\ [][Next]_vars

------------------------------------------------------------------------------
(* Properties                                                              *)

\* Whatever ran side by side, failed or was killed before, a command that
\* installs and runs by itself to its end leaves the lockfile that is in force
\* with exactly the packages of the manifest that is in force (Install, line 79).
LockCurrent ==
  settled => lock[LockfilePath] = Locked(ParseDependencies(manifest[ManifestPath]))

Without(deps, names) == [name \in DOMAIN deps \ names |-> deps[name]]

\* In whatever shape commands and users leave a manifest, adding a package that
\* is not listed lists it with the version it was added with, removing one takes
\* it from the list, and neither changes another package (lines 145 and 177, with
\* parseDependencies).  Two cases in which the code does something else are left
\* out: the version of a package that is listed before it is added, which stays
\* the old one, and removing a name that another listed name ends in, which takes
\* that one as well.
EditsExact ==
  \A lines \in {manifest[f] : f \in Flavours} \ {Absent}, name \in Names :
    LET deps == ParseDependencies(lines) IN
    /\ \A v \in Versions :
         LET after == ParseDependencies(Added(lines, name, v)) IN
         /\ name \in DOMAIN after
         /\ name \notin DOMAIN deps => after[name] = v
         /\ Without(after, {name}) = Without(deps, {name})
    /\ (\A n \in DOMAIN deps : IsSuffix(name, n) => n = name) =>
         ParseDependencies(Removed(lines, name)) = Without(deps, {name})

==============================================================================
