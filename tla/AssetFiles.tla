----------------------------- MODULE AssetFiles -----------------------------
(***************************************************************************)
(* The files of the image signature verifier as three programs check them: *)
(* asset-files.mjs (shared shapes and integrity checks), the Lambda        *)
(* packager (build-image-signature-verifier-lambda.mjs) and the runtime    *)
(* verifier (verifier.mjs).  Pure operators over a directory               *)
(*   [entries |-> path -> [kind, contents, mode], record |-> ...]          *)
(* A file's contents stand for its bytes and so for its sha256; they are   *)
(* <<path, version, variant>>, the variant of a tool being its             *)
(* architecture and of a manifest the flaw it has, if any.  The manifest   *)
(* of version v pins version v of every tool.  The five licence files are  *)
(* one.                                                                    *)
(***************************************************************************)
EXTENDS Naturals, FiniteSets, FiniteSetsExt, Functions, SequencesExt

CONSTANTS None,
          MaximumAssetBytes,   \* what the runtime admits in all
          MaximumPackageFiles  \* the recorded files a package may have

Architectures == {"amd64", "arm64"}

Tools == {"notation", "plugin", "helper"}

\* The files in the order of their paths, which is the record's.
PathOrder == <<"manifest", "helper", "notation", "plugin", "licence", "root", "stray">>

\* The files that an installation consists of; "stray" is any other one.
Installed == ToSet(PathOrder) \ {"stray"}

\* Versions 1 and 2 are pinned by the manifests of two commits, version 3 is a
\* file altered without changing its size, version 4 one altered with it.
Versions == 1 .. 4

sizeOf(contents) == IF contents[2] = 4 THEN 2 ELSE 1

\* What the manifest pins for the architecture: the executables' and the trust
\* root's sha256.  One with the flaw "machine" pins the executables of the other
\* architecture.
pin(manifest, architecture, path) ==
    <<path, manifest[2],
      CASE path \notin Tools          -> "any"
        [] manifest[3] = "machine"     -> CHOOSE a \in Architectures : a # architecture
        [] OTHER                       -> architecture>>

file(contents, mode) == [kind |-> "file", contents |-> contents, mode |-> mode]

ExpectedMode(path) == IF path \in Tools THEN "0755" ELSE "0644"

\* The paths that a manifest requires, with the installation's own copy of it.
Required == Tools \cup {"root", "manifest"}

\* An entry of the installation record for a file just written.
recordOf(entry) == [sha256 |-> entry.contents, mode |-> entry.mode, size |-> sizeOf(entry.contents)]

-----------------------------------------------------------------------------
(* asset-files.mjs *)

inventoryMatches(dir) == DOMAIN dir.entries = DOMAIN dir.record.files

onlyFiles(dir) == \A p \in DOMAIN dir.entries : dir.entries[p].kind = "file"

\* The modes that the packager accepts for a recorded one, and those that the
\* runtime accepts because a read-only Lambda file system shows them.
exactMode(recorded, actual) == actual = recorded

isLambdaRuntimeAssetModeCompatible(recorded, actual) ==
    actual \in IF recorded = "0644" THEN {"0444", "0555", "0644", "0755"} ELSE {"0555", "0755"}

\* validateInstalledAssetFiles on one file: the first thing that is wrong.
fileProblem(dir, p, exact) ==
    LET entry == dir.entries[p]
        recorded == dir.record.files[p]
        modeCompatible == IF exact THEN exactMode(recorded.mode, entry.mode)
                          ELSE isLambdaRuntimeAssetModeCompatible(recorded.mode, entry.mode)
    IN IF entry.kind # "file" THEN "TYPE"
       ELSE IF sizeOf(entry.contents) # recorded.size THEN "SIZE"
       ELSE IF ~modeCompatible THEN "MODE"
       ELSE IF entry.contents # recorded.sha256 THEN "HASH"
       ELSE None

\* validateInstalledAssetFiles: the first file, in the order of the record,
\* with something wrong.
validateInstalledAssetFiles(dir, exact) ==
    LET wrong == {i \in DOMAIN PathOrder :
                    /\ PathOrder[i] \in DOMAIN dir.record.files
                    /\ fileProblem(dir, PathOrder[i], exact) # None}
    IN IF wrong = {} THEN None ELSE fileProblem(dir, PathOrder[Min(wrong)], exact)

-----------------------------------------------------------------------------
(* The packager: exact modes, and the record's own manifest and trust root. *)

readPackageInstallation(dir) ==
    /\ dir.record # None
    /\ dir.record.architecture = "amd64"

admitPackageAssetFiles(record) ==
    /\ record.wellFormed
    /\ DOMAIN record.files # {}
    /\ Cardinality(DOMAIN record.files) <= MaximumPackageFiles

assertPackageAssetAuthority(record) ==
    /\ {"manifest", "root"} \subseteq DOMAIN record.files
    /\ record.files["manifest"].sha256 = record.manifest
    /\ record.files["root"].sha256 = record.root

validatePackageAssets(dir) ==
    /\ readPackageInstallation(dir)
    /\ admitPackageAssetFiles(dir.record)
    /\ onlyFiles(dir)
    /\ inventoryMatches(dir)
    /\ validateInstalledAssetFiles(dir, TRUE) = None
    /\ dir.recordMode = "0644"
    /\ assertPackageAssetAuthority(dir.record)

-----------------------------------------------------------------------------
(* The runtime: the modes a read-only Lambda file system shows, and the    *)
(* manifest's pins.                                                        *)

admitVerifierManifest(manifest) == manifest[3] # "envelope"

admitVerifierInstallation(record, architecture, manifest) ==
    /\ record.architecture = architecture
    /\ record.manifest = manifest

totalSize(record) == MapThenSumSet(LAMBDA p : record.files[p].size, DOMAIN record.files)

admitVerifierInstalledFiles(record) ==
    /\ record.wellFormed
    /\ DOMAIN record.files # {}
    /\ totalSize(record) <= MaximumAssetBytes

\* Faulty variant: the record is believed about the executables.
recordBelieved(record, architecture, manifest) == "manifest" \in DOMAIN record.files

assertInstalledAssetAuthorities(record, architecture, manifest) ==
    \A p \in Required :
        /\ p \in DOMAIN record.files
        /\ record.files[p].sha256 = IF p = "manifest" THEN manifest ELSE pin(manifest, architecture, p)
        /\ record.files[p].mode = ExpectedMode(p)

problemReason(problem) ==
    CASE problem = "TYPE" -> "ASSET_FILE_TYPE_INVALID"
      [] problem = "SIZE" -> "ASSET_FILE_SIZE_INVALID"
      [] problem = "MODE" -> "ASSET_FILE_MODE_INVALID"
      [] problem = "HASH" -> "ASSET_FILE_HASH_INVALID"

\* validateVerifierAssets: the first check that fails gives the reason.
validateVerifierAssets(dir, architecture) ==
    IF dir.record = None \/ "manifest" \notin DOMAIN dir.entries THEN "ASSET_IO_ERROR"
    ELSE LET manifest == dir.entries["manifest"].contents
             problem == validateInstalledAssetFiles(dir, FALSE)
         IN IF \/ ~admitVerifierManifest(manifest)
               \/ ~admitVerifierInstallation(dir.record, architecture, manifest)
            THEN "ASSET_METADATA_INVALID"
            ELSE IF dir.record.root # pin(manifest, architecture, "root") THEN "ASSET_AUTHORITY_INVALID"
            ELSE IF ~admitVerifierInstalledFiles(dir.record) THEN "ASSET_INSTALLATION_RECORD_INVALID"
            ELSE IF ~onlyFiles(dir) \/ ~inventoryMatches(dir) THEN "ASSET_DIRECTORY_INVALID"
            ELSE IF problem # None THEN problemReason(problem)
            ELSE IF ~isLambdaRuntimeAssetModeCompatible("0644", dir.recordMode) THEN "ASSET_INSTALLATION_MODE_INVALID"
            ELSE IF ~assertInstalledAssetAuthorities(dir.record, architecture, manifest) THEN "ASSET_AUTHORITY_INVALID"
            ELSE "READY"

\* admitRuntimeVerifierAssets: the deployment's own digests, when it has any.
admitRuntimeVerifierAssets(dir, architecture, expectedManifest, expectedRoot) ==
    LET validated == validateVerifierAssets(dir, architecture)
    IN IF /\ validated = "READY"
          /\ \/ expectedManifest # None /\ dir.record.manifest # expectedManifest
             \/ expectedRoot # None /\ dir.record.root # expectedRoot
       THEN "ASSET_DEPLOYMENT_AUTHORITY_MISMATCH"
       ELSE validated

-----------------------------------------------------------------------------
\* The tools and the trust root are the ones that the manifest pins.
IsPinned(dir, architecture, manifest) ==
    \A p \in Tools \cup {"root"} :
        /\ p \in DOMAIN dir.entries
        /\ dir.entries[p].contents = pin(manifest, architecture, p)

=============================================================================
