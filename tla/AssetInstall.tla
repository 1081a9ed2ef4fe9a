---------------------------- MODULE AssetInstall ----------------------------
(***************************************************************************)
(* Installing the verifier's assets and packaging them for the Lambda:     *)
(*   install-image-signature-verifier-assets.mjs                           *)
(*   build-image-signature-verifier-lambda.mjs                             *)
(* An installer stages the files beside its output directory, checks every *)
(* download and renames the stage into place; a packager installs into a   *)
(* directory of its own, validates it and renames the archive into place.  *)
(* Processes may share an output directory, the servers downloaded from    *)
(* may change what they serve, a process may crash, and installed files    *)
(* may be edited (MaxFaults such events in all).                           *)
(***************************************************************************)
EXTENDS AssetFiles

CONSTANTS Installers,  \* runs of the installer, all with one output directory
          Packagers,   \* runs of the packager, all with one output directory
          Manifests,   \* what the repository's manifest may contain
          MaxFaults

Processes == Installers \cup Packagers

VARIABLES upstream,    \* path -> version that the pinned URLs serve
          state,       \* process -> where it is and what it works with
          roots,       \* process -> its staging directory, None when there is none
          assets,      \* the installers' output directory, None when absent
          artifact,    \* the packagers' output directory, None when absent
          edited,      \* the directories that were edited, of those three kinds
          faults

vars == <<upstream, state, roots, assets, artifact, edited, faults>>

Downloaded == Tools \cup {"root", "licence"}

Init ==
    /\ upstream = [p \in Downloaded |-> 1]
    /\ state = [x \in Processes |-> [at |-> "idle", manifest |-> None, architecture |-> None, validated |-> None]]
    /\ roots = [x \in Processes |-> None]
    /\ assets = None
    /\ artifact = None
    /\ edited = {}
    /\ faults = 0

output(x) == IF x \in Installers THEN assets ELSE artifact

goto(x, at) == state' = [state EXCEPT ![x].at = at]

\* The finally blocks: what was not renamed into place is removed.
fail(x) ==
    /\ goto(x, "failed")
    /\ roots' = [roots EXCEPT ![x] = None]
    /\ UNCHANGED <<upstream, assets, artifact, edited, faults>>

-----------------------------------------------------------------------------
(* The installer, and the packager's call of it.  The third part of a      *)
(* manifest's contents names its one flaw.                                 *)

\* parseAssetManifest: the envelope, the platform with its URLs and digests,
\* the download pins, the trust root and distinct installed paths.
parseAssetManifest(manifest) == manifest[3] \notin {"envelope", "pins", "paths"}

\* assertOutputDoesNotExist, the manifest and the staging directory.
Start(x, manifest, architecture) ==
    /\ state[x].at = "idle"
    /\ x \in Packagers => architecture = "amd64"
    /\ IF output(x) = None /\ parseAssetManifest(manifest)
       THEN /\ state' = [state EXCEPT ![x].at = "staged", ![x].manifest = manifest,
                                      ![x].architecture = architecture]
            /\ roots' = [roots EXCEPT ![x] = [entries |-> <<>>, record |-> None, recordMode |-> None]]
            /\ UNCHANGED <<upstream, assets, artifact, edited, faults>>
       ELSE fail(x)

\* A download, an archive tool, a native load check or the handler's bundling fails.
Refused(x) ==
    /\ state[x].at \in {"staged", "written", "installed"}
    /\ fail(x)

\* The downloads' checksums: the archives', the helper's, the licences', the root's.
checksumsMatch(manifest) == \A p \in Downloaded : upstream[p] = manifest[2]

\* assertExactArchiveEntries, the extracted executables' own checksums and
\* assertElfArchitecture.
archivesAdmitted(manifest) == manifest[3] \notin {"entries", "executable", "machine"}

\* What is extracted or downloaded for the path: an archive of the flaw
\* "executable" holds another one than the manifest names beside it.
extracted(x, p) ==
    LET manifest == state[x].manifest IN
    CASE p = "manifest"                                                    -> manifest
      [] manifest[3] = "executable" /\ p \in {"notation", "plugin"}      -> <<p, 3, state[x].architecture>>
      [] OTHER                                                             -> pin(manifest, state[x].architecture, p)

\* The downloads are checked, unpacked, checked again, written and removed.
Write(x) ==
    LET manifest == state[x].manifest IN
    /\ state[x].at = "staged"
    /\ IF checksumsMatch(manifest) /\ archivesAdmitted(manifest)
       THEN /\ goto(x, "written")
            /\ roots' = [roots EXCEPT ![x].entries = [p \in Installed |-> file(extracted(x, p), ExpectedMode(p))]]
            /\ UNCHANGED <<upstream, assets, artifact, edited, faults>>
       ELSE fail(x)

\* buildInstallationRecord: the digests written and the manifest's.
buildInstallationRecord(x) ==
    [architecture |-> state[x].architecture,
     manifest |-> state[x].manifest,
     root |-> pin(state[x].manifest, state[x].architecture, "root"),
     wellFormed |-> TRUE,
     files |-> [p \in DOMAIN roots[x].entries |-> recordOf(roots[x].entries[p])]]

\* The stage once the native checks have passed, whose own directory is
\* removed, and the record is written.
recorded(x) == [roots[x] EXCEPT !.record = buildInstallationRecord(x), !.recordMode = "0644"]

\* The installer's last steps.  A rename onto a directory with files in it fails.
Record(x) ==
    /\ x \in Installers
    /\ state[x].at = "written"
    /\ IF assets = None
       THEN /\ goto(x, "done")
            /\ assets' = recorded(x)
            /\ roots' = [roots EXCEPT ![x] = None]
            /\ UNCHANGED <<upstream, artifact, edited, faults>>
       ELSE fail(x)

\* The same for a packager, whose asset directory is its own.
Install(x) ==
    /\ x \in Packagers
    /\ state[x].at = "written"
    /\ goto(x, "installed")
    /\ roots' = [roots EXCEPT ![x] = recorded(x)]
    /\ UNCHANGED <<upstream, assets, artifact, edited, faults>>

-----------------------------------------------------------------------------
(* The packager *)

\* validatePackageAssets, the bundled handler and the limits on the package.
Validate(x) ==
    /\ state[x].at = "installed"
    /\ IF validatePackageAssets(roots[x])
       THEN /\ state' = [state EXCEPT ![x].at = "validated", ![x].validated = roots[x].record]
            /\ UNCHANGED <<upstream, roots, assets, artifact, edited, faults>>
       ELSE fail(x)

\* writeDeterministicZip: the files that the validated record names, with its
\* modes, and the record as they are now.
zipped(x) ==
    LET record == state[x].validated IN
    [entries |-> [p \in DOMAIN record.files |-> file(roots[x].entries[p].contents, record.files[p].mode)],
     record |-> roots[x].record, recordMode |-> "0644"]

\* The archive, its manifest and the rename into place.
Publish(x) ==
    LET record == state[x].validated IN
    /\ state[x].at = "validated"
    /\ IF artifact = None /\ roots[x].record # None /\ DOMAIN record.files \subseteq DOMAIN roots[x].entries
       THEN /\ goto(x, "done")
            /\ artifact' = [dir |-> zipped(x), manifest |-> record.manifest, root |-> record.root]
            /\ roots' = [roots EXCEPT ![x] = None]
            /\ edited' = edited \cup (IF x \in edited THEN {"artifact"} ELSE {})
            /\ UNCHANGED <<upstream, assets, faults>>
       ELSE fail(x)

-----------------------------------------------------------------------------
(* The environment *)

\* The pinned URLs serve another version.
Serve(p, version) ==
    /\ faults < MaxFaults
    /\ upstream[p] # version
    /\ upstream' = [upstream EXCEPT ![p] = version]
    /\ faults' = faults + 1
    /\ UNCHANGED <<state, roots, assets, artifact, edited>>

\* A process dies and leaves its directory.
Crash(x) ==
    /\ faults < MaxFaults
    /\ state[x].at \notin {"idle", "failed", "done", "crashed"}
    /\ goto(x, "crashed")
    /\ faults' = faults + 1
    /\ UNCHANGED <<upstream, roots, assets, artifact, edited>>

\* The changes to a directory with a record: a file altered, its mode changed,
\* replaced by a link or removed; a file added; the record brought up to date
\* with the files, damaged, or removed.
changes(dir) ==
    {[dir EXCEPT !.entries[p].contents = <<@[1], v, @[3]>>] : p \in DOMAIN dir.entries, v \in {3, 4}}
    \cup {[dir EXCEPT !.entries[p].mode = "0666"] : p \in DOMAIN dir.entries}
    \cup {[dir EXCEPT !.entries[p].kind = "link"] : p \in DOMAIN dir.entries}
    \cup {[dir EXCEPT !.entries = Restrict(@, DOMAIN @ \ {p})] : p \in DOMAIN dir.entries}
    \cup {[dir EXCEPT !.entries = [p \in DOMAIN @ \cup {"stray"} |->
              IF p = "stray" THEN file(<<"stray", 3, "any">>, "0644") ELSE dir.entries[p]]]}
    \cup {[dir EXCEPT !.record.files = [p \in DOMAIN dir.entries |-> recordOf(dir.entries[p])]],
          [dir EXCEPT !.record.wellFormed = FALSE], [dir EXCEPT !.record = None], [dir EXCEPT !.recordMode = "0666"]}
    \cup (IF "manifest" \in DOMAIN dir.entries
          THEN {[dir EXCEPT !.record.manifest = dir.entries["manifest"].contents]} ELSE {})
    \cup (IF "root" \in DOMAIN dir.entries
          THEN {[dir EXCEPT !.record.root = dir.entries["root"].contents]} ELSE {})

EditAssets ==
    /\ faults < MaxFaults
    /\ assets # None
    /\ assets.record # None
    /\ assets' \in changes(assets)
    /\ edited' = edited \cup {"assets"}
    /\ faults' = faults + 1
    /\ UNCHANGED <<upstream, state, roots, artifact>>

EditRoot(x) ==
    /\ faults < MaxFaults
    /\ state[x].at \in {"installed", "validated"}
    /\ roots[x].record # None
    /\ \E dir \in changes(roots[x]) : roots' = [roots EXCEPT ![x] = dir]
    /\ edited' = edited \cup {x}
    /\ faults' = faults + 1
    /\ UNCHANGED <<upstream, state, assets, artifact>>

Next ==
    \/ \E x \in Processes :
        \/ \E m \in Manifests, a \in Architectures : Start(x, m, a)
        \/ Refused(x) \/ Write(x) \/ Record(x) \/ Install(x) \/ Validate(x) \/ Publish(x)
        \/ Crash(x) \/ EditRoot(x)
    \/ \E p \in Downloaded, v \in {2, 3} : Serve(p, v)
    \/ EditAssets

Spec == Init /\ [][Next]_vars

-----------------------------------------------------------------------------
(* Properties *)

Ats == {"idle", "staged", "written", "installed", "validated", "failed", "done", "crashed"}

\* Every process is at one of its steps, and has a directory exactly while it
\* runs or after it crashed; a process that ended by itself, well or badly,
\* leaves none beside its output.
TypeOK ==
    /\ upstream \in [Downloaded -> Versions]
    /\ \A x \in Processes :
        /\ state[x].at \in Ats
        /\ state[x].manifest \in Manifests \cup {None}
        /\ state[x].architecture \in Architectures \cup {None}
        /\ (roots[x] = None) <=> state[x].at \in {"idle", "failed", "done"}
    /\ edited \subseteq Packagers \cup {"assets", "artifact"}
    /\ faults \in 0 .. MaxFaults

\* The modes that a read-only Lambda file system may show for a package.
projections(dir) ==
    {[dir EXCEPT !.entries = [p \in DOMAIN dir.entries |->
                    [dir.entries[p] EXCEPT !.mode = IF @ = "0755" THEN f[1] ELSE f[2]]],
                 !.recordMode = f[2]] :
        f \in {<<"0755", "0644">>, <<"0555", "0444">>, <<"0555", "0555">>, <<"0755", "0755">>}}

\* The two validations, written separately from the installer, agree with it: an
\* installation or a package that nobody edited is admitted by the verifier that
\* runs from it, with whatever modes Lambda shows, and holds executables of the
\* architecture it was installed for.
PublishedIsAdmitted ==
    /\ (assets # None /\ "assets" \notin edited) =>
        /\ admitRuntimeVerifierAssets(assets, assets.record.architecture, None, None) = "READY"
        /\ \A p \in Tools : assets.entries[p].contents[3] = assets.record.architecture
        /\ assets.record.architecture = "amd64" => validatePackageAssets(assets)
    /\ (artifact # None /\ "artifact" \notin edited) =>
        \A dir \in projections(artifact.dir) :
            admitRuntimeVerifierAssets(dir, "amd64", artifact.manifest, artifact.root) = "READY"

\* Whatever was edited, and whenever (before the packager validated the files or
\* between that and its reading them again): a directory that the verifier admits
\* holds the executables and the trust root that its manifest pins, and for a
\* package that manifest is the one its deployment names.
AdmittedIsPinned ==
    /\ assets # None =>
        \A a \in Architectures :
            admitRuntimeVerifierAssets(assets, a, None, None) = "READY"
                => IsPinned(assets, a, assets.entries["manifest"].contents)
    /\ artifact # None =>
        \A dir \in projections(artifact.dir) :
            admitRuntimeVerifierAssets(dir, "amd64", artifact.manifest, artifact.root) = "READY"
                => /\ IsPinned(dir, "amd64", artifact.manifest)
                   /\ dir.entries["manifest"].contents = artifact.manifest

\* What was published stays: of several processes with one output directory the
\* first one's is kept, and the others fail, although all of them may have found
\* the directory absent.
FirstIsKept ==
    /\ (assets # None /\ "assets" \notin edited') => assets' = assets
    /\ artifact # None => artifact' = artifact

=============================================================================
