----------------------------- MODULE Handshake -----------------------------
(***************************************************************************)
(* What the hub verifies before it accepts a connection of one node:       *)
(* node.handleConnection (nodes/node.go) with the manifest and its status  *)
(* (manifest/manifest.go, utilities/status), the executable (nodes/        *)
(* binary.go), and GetManifest (nodes/nodes.go), which describes a node    *)
(* whose manifest the hub could not read when it started.                  *)
(*                                                                         *)
(* One manifest and its status serve all connections of the node, and      *)
(* GetManifest.  The status has a lock of its own; a step here lies        *)
(* between two reads or writes of it.  A checksum is the content it was    *)
(* taken of.  The file may be edited at any time; HYPHAE may fail.  What a *)
(* connection may do meanwhile is in Connection.tla.                       *)
(*                                                                         *)
(* The file is read into the manifest that there is already: a key that    *)
(* the file does not have keeps the value it was given by an earlier one.  *)
(* A value is represented by the content it came from.  (That a file may   *)
(* have keys with the names of the fields that the hub keeps for itself in *)
(* the manifest, its path or status, is left out.)                         *)
(***************************************************************************)
EXTENDS Node

CONSTANTS
    Describer,   \* goroutines in GetManifest
    Content,     \* contents of the manifest file
    Developers,  \* contents that declare developer trust
    Garbled,     \* contents that cannot be parsed, or not to the end
    Key,         \* keys of a manifest
    Id, Trust,   \* two of them
    KeysOf,      \* the keys that are decoded from each content
    Program,     \* executables of processes
    Developer    \* the checksum "developer"

ASSUME HandshakeAssumption ==
    /\ None \notin Content /\ Developer \notin Content
    /\ Developers \subseteq Content
    /\ Garbled \subseteq Content
    /\ {Id, Trust} \subseteq Key
    /\ KeysOf \in [Content -> SUBSET Key]
    /\ \A content \in Developers : Trust \in KeysOf[content]

VARIABLES
    registry,   \* the registry's checksums of manifest and binary
    readable,   \* the hub may read the manifest / the executable itself
    file,       \* the manifest file, None when it is missing
    status,     \* manifest.Status
    loaded,     \* the manifest: what each key was read from, None at first
    conn,       \* each connection
    describer,  \* each GetManifest, with the content it was sent
    edited,     \* connections during whose handshake the file was edited, or
                \* GetManifest was at work, or another such one was verified
    disturbed,  \* those, and the ones that overlapped with another one, or
                \* for which HYPHAE or the system failed
    pristine    \* the file has been as installed since the hub started

handshakeVars == <<registry, readable, file, status, loaded, conn, describer,
                   edited, disturbed, pristine>>
fixed == <<registry, readable>>
history == <<edited, disturbed, pristine>>

Failing == {"Missing", "FailedChecksum", "Malformed"}
Statuses == Failing \cup
    {"Unverified", "RequiresUserSpace", "RequiresDeveloper", "Verified"}

Manifest == [Key -> Content \cup {None}]
Blank == [k \in Key |-> None]

Away == [at |-> "away", exe |-> None, same |-> TRUE, with |-> Blank]
Resting == [at |-> "resting", content |-> None]

HandshakeTypeOK ==
    /\ registry \in [manifest : Content \cup {Developer},
                     binary : Program \cup {Developer}]
    /\ readable \in [manifest : BOOLEAN, binary : BOOLEAN]
    /\ file \in Content \cup {None}
    /\ status \in Statuses
    /\ loaded \in Manifest
    /\ conn \in [Conn ->
          [at : {"away", "verify", "branch", "hash", "check", "load", "binary",
                 "hashBinary", "accepted", "denied"},
           exe : Program \cup {None}, same : BOOLEAN, with : Manifest]]
    /\ describer \in [Describer ->
          [at : {"resting", "reading", "loading", "hashing"},
           content : Content \cup {None}]]
    /\ \A d \in Describer :
          describer[d].at = "loading" => describer[d].content # None
    /\ edited \in SUBSET Conn
    /\ disturbed \in SUBSET Conn
    /\ pristine \in BOOLEAN

-----------------------------------------------------------------------------
\* manifest.Trust is "developer".
DeveloperTrust(manifest) == manifest[Trust] \in Developers

\* (A slip: developer trust is believed whatever the registry says.)
VerifiedTrusting(manifest, lastStatus) ==
    IF lastStatus = "Missing" THEN lastStatus
    ELSE IF DeveloperTrust(manifest) THEN "Verified"
    ELSE IF ~ readable.manifest \/ file = None THEN "RequiresUserSpace"
    ELSE IF file = registry.manifest THEN "Verified" ELSE "FailedChecksum"

\* Verify: the status of this manifest.
Verified(manifest, lastStatus) ==
    IF lastStatus = "Missing" THEN lastStatus
    ELSE IF DeveloperTrust(manifest) THEN "RequiresDeveloper"
    ELSE IF ~ readable.manifest \/ file = None THEN "RequiresUserSpace"
    ELSE IF file = registry.manifest THEN "Verified" ELSE "FailedChecksum"

\* yaml.Unmarshal into a manifest writes the keys that it can decode.
Decoded(content, manifest) ==
    [k \in Key |-> IF k \in KeysOf[content] THEN content ELSE manifest[k]]

\* Load leaves the manifest alone when the file cannot be read.
CanLoad == readable.manifest /\ file # None
LoadedFrom(manifest) == IF CanLoad THEN Decoded(file, manifest) ELSE manifest

\* The file says what was installed.
AsInstalled(content) ==
    IF registry.manifest = Developer THEN content \in Developers \ Garbled
    ELSE content = registry.manifest

Busy == {c \in Conn : conn[c].at \notin {"away", "accepted", "denied"}}
Describing == {d \in Describer : describer[d].at # "resting"}

HandshakeInit ==
    /\ registry \in [manifest : Content \ (Garbled \cup Developers),
                     binary : Program]
                    \cup {[manifest |-> Developer, binary |-> Developer]}
    /\ readable \in [manifest : BOOLEAN, binary : BOOLEAN]
    /\ file \in Content
    /\ AsInstalled(file)
    \* Installed in this run of the hub, or before its start.
    /\ loaded \in {Decoded(file, Blank), LoadedFrom(Blank)}
    /\ status = Verified(loaded, "Unverified")
    /\ conn = [c \in Conn |-> Away]
    /\ describer = [d \in Describer |-> Resting]
    /\ edited = {} /\ disturbed = {}
    /\ pristine = TRUE

\* manifest.New and newNode: the status that Load leaves is written over.
Restart ==
    /\ loaded' = LoadedFrom(Blank)
    /\ status' = Verified(loaded', IF file = None THEN "Missing" ELSE "Unverified")
    /\ conn' = [c \in Conn |-> Away]
    /\ describer' = [d \in Describer |-> Resting]
    /\ edited' = {} /\ disturbed' = {}
    /\ pristine' = AsInstalled(file)
    /\ UNCHANGED <<fixed, file>>

\* Somebody edits, removes or restores the file.
Edit ==
    /\ file' \in Content \cup {None}
    /\ file' # file
    /\ edited' = edited \cup Busy
    /\ disturbed' = disturbed \cup Busy
    /\ pristine' = (pristine /\ AsInstalled(file'))
    /\ UNCHANGED <<fixed, status, loaded, conn, describer>>

-----------------------------------------------------------------------------
Reached(c, place) == conn[c].at = place
Go(c, place) == conn' = [conn EXCEPT ![c].at = place]

\* A process connects; a manifest that has failed is not verified again.
Connect(c) ==
    /\ Reached(c, "away")
    /\ \E exe \in Program, same \in BOOLEAN :
          conn' = [conn EXCEPT ![c] = [Away EXCEPT
              !.at = IF status \in Failing THEN "denied" ELSE "verify",
              !.exe = exe, !.same = same]]
    /\ edited' = IF Describing # {} \/ Busy \cap edited # {}
                 THEN edited \cup {c} ELSE edited
    /\ disturbed' = IF Describing # {} \/ Busy # {}
                    THEN disturbed \cup Busy \cup {c} ELSE disturbed
    /\ UNCHANGED <<fixed, file, status, loaded, describer, pristine>>

Verify(c) ==
    /\ Reached(c, "verify")
    /\ status' = Verified(loaded, status)
    /\ Go(c, "branch")
    /\ UNCHANGED <<fixed, file, loaded, describer, history>>

\* A developer's manifest must have been installed as one.
BranchDeveloper(c) ==
    /\ Reached(c, "branch")
    /\ status = "RequiresDeveloper"
    /\ IF registry.manifest = Developer
       THEN status' = "Verified" /\ Go(c, "check")
       ELSE status' = "FailedChecksum" /\ Go(c, "denied")
    /\ UNCHANGED <<fixed, file, loaded, describer, history>>

\* (A slip: HYPHAE is not asked.)
BranchUnasked(c) ==
    /\ Reached(c, "branch")
    /\ status # "RequiresDeveloper"
    /\ Go(c, "check")
    /\ UNCHANGED <<fixed, file, status, loaded, describer, history>>

Branch(c) ==
    /\ Reached(c, "branch")
    /\ status # "RequiresDeveloper"
    /\ Go(c, IF status = "RequiresUserSpace" THEN "hash" ELSE "check")
    /\ UNCHANGED <<fixed, file, status, loaded, describer, history>>

\* hyphae.HashFile: HYPHAE answers, ...
HashFile(c) ==
    /\ Reached(c, "hash")
    /\ file # None
    /\ IF file = registry.manifest
       THEN status' = "Verified" /\ Go(c, "check")
       ELSE status' = "FailedChecksum" /\ Go(c, "denied")
    /\ UNCHANGED <<fixed, file, loaded, describer, history>>

\* ... or not, for want of a file, an answer or a HYPHAE.
HashFileFails(c) ==
    /\ Reached(c, "hash")
    /\ Go(c, "denied")
    /\ disturbed' = disturbed \cup {c}
    /\ UNCHANGED <<fixed, file, status, loaded, describer, edited, pristine>>

Check(c) ==
    /\ Reached(c, "check")
    /\ Go(c, IF status \in Failing THEN "denied" ELSE "load")
    /\ UNCHANGED <<fixed, file, status, loaded, describer, history>>

\* Load reads the file once more; the status is looked at again after it.
Load(c) ==
    /\ Reached(c, "load")
    /\ loaded' = LoadedFrom(loaded)
    /\ status' = IF CanLoad /\ file \in Garbled THEN "Malformed" ELSE status
    /\ Go(c, IF status' = "Verified" THEN "binary" ELSE "denied")
    /\ UNCHANGED <<fixed, file, describer, history>>

Accept(c) == conn' = [conn EXCEPT ![c].at = "accepted", ![c].with = loaded]

\* The executable of a developer's node only has to exist.
DeveloperBinary(c) ==
    /\ Reached(c, "binary")
    /\ DeveloperTrust(loaded)
    /\ Accept(c)
    /\ UNCHANGED <<fixed, file, status, loaded, describer, history>>

\* The process runs the installed path, and its checksum is the installed one.
VerifyBinary(c) ==
    /\ Reached(c, "binary")
    /\ ~ DeveloperTrust(loaded)
    /\ readable.binary
    /\ IF conn[c].same /\ conn[c].exe = registry.binary
       THEN Accept(c) ELSE Go(c, "denied")
    /\ UNCHANGED <<fixed, file, status, loaded, describer, history>>

\* The hub may not read the executable, or look at the process.
BinaryInUserSpace(c) ==
    /\ Reached(c, "binary")
    /\ ~ DeveloperTrust(loaded)
    /\ Go(c, "hashBinary")
    /\ UNCHANGED <<fixed, file, status, loaded, describer, history>>

\* hyphae.HashBinary goes by the process; its path is not compared.
HashBinary(c) ==
    /\ Reached(c, "hashBinary")
    /\ IF conn[c].exe = registry.binary THEN Accept(c) ELSE Go(c, "denied")
    /\ UNCHANGED <<fixed, file, status, loaded, describer, history>>

\* Missing, no path of the process to be had, or no answer of HYPHAE.
BinaryFails(c) ==
    /\ conn[c].at \in {"binary", "hashBinary"}
    /\ Go(c, "denied")
    /\ disturbed' = disturbed \cup {c}
    /\ UNCHANGED <<fixed, file, status, loaded, describer, edited, pristine>>

\* The connection is closed.
Leave(c) ==
    /\ conn[c].at \in {"accepted", "denied"}
    /\ conn' = [conn EXCEPT ![c] = Away]
    /\ edited' = edited \ {c} /\ disturbed' = disturbed \ {c}
    /\ UNCHANGED <<fixed, file, status, loaded, describer, pristine>>

-----------------------------------------------------------------------------
(* GetManifest.                                                            *)

Describe(d, place, content) ==
    describer' = [describer EXCEPT ![d] = [at |-> place, content |-> content]]

BeginDescribe(d) ==
    /\ describer[d].at = "resting"
    /\ loaded[Id] = None
    /\ Describe(d, "reading", None)
    /\ edited' = edited \cup Busy
    /\ disturbed' = disturbed \cup Busy
    /\ UNCHANGED <<fixed, file, status, loaded, conn, pristine>>

\* hyphae.ManifestRead
ReadManifest(d) ==
    /\ describer[d].at = "reading"
    /\ file # None
    /\ Describe(d, "loading", file)
    /\ UNCHANGED <<fixed, file, status, loaded, conn, history>>

\* A manifest that declares developer trust must have been installed so.
LoadContent(d) ==
    LET content == describer[d].content
    IN  /\ describer[d].at = "loading"
        /\ loaded' = Decoded(content, loaded)
        /\ IF DeveloperTrust(loaded')
           THEN /\ status' = IF registry.manifest = Developer
                             THEN "Verified" ELSE "FailedChecksum"
                /\ describer' = [describer EXCEPT ![d] = Resting]
           ELSE /\ status' = IF content \in Garbled THEN "Malformed" ELSE status
                /\ Describe(d, "hashing", content)
        /\ UNCHANGED <<fixed, file, conn, history>>

HashContent(d) ==
    /\ describer[d].at = "hashing"
    /\ file # None
    /\ status' = IF file = registry.manifest THEN "Verified" ELSE "FailedChecksum"
    /\ describer' = [describer EXCEPT ![d] = Resting]
    /\ UNCHANGED <<fixed, file, loaded, conn, history>>

DescribeFails(d) ==
    /\ describer[d].at \in {"reading", "hashing"}
    /\ describer' = [describer EXCEPT ![d] = Resting]
    /\ UNCHANGED <<fixed, file, status, loaded, conn, history>>

-----------------------------------------------------------------------------
HandshakeNext ==
    \/ Restart
    \/ Edit
    \/ \E c \in Conn :
          \/ Connect(c) \/ Verify(c) \/ BranchDeveloper(c) \/ Branch(c)
          \/ HashFile(c) \/ HashFileFails(c) \/ Check(c) \/ Load(c)
          \/ DeveloperBinary(c) \/ VerifyBinary(c) \/ BinaryInUserSpace(c)
          \/ HashBinary(c) \/ BinaryFails(c) \/ Leave(c)
    \/ \E d \in Describer :
          \/ BeginDescribe(d) \/ ReadManifest(d) \/ LoadContent(d)
          \/ HashContent(d) \/ DescribeFails(d)

HandshakeSpec == HandshakeInit /\ [][HandshakeNext]_handshakeVars

-----------------------------------------------------------------------------
\* What a hub that has read no other file has loaded.
Installed == Decoded(registry.manifest, Blank)

(* A connection that is accepted comes from the executable that was        *)
(* installed, unless the node was installed as a developer's; and if the   *)
(* hub reads the manifest itself, every key that the installed one has is  *)
(* as installed, and nothing else is loaded as long as the file has been   *)
(* as installed since the hub started.  All this also when handshakes of   *)
(* the node overlap and share one status, provided that the file is        *)
(* neither edited nor being described during any of them.  (What           *)
(* GetManifest loads, it loads before the checksum is known to be right.)  *)
AcceptedAsInstalled ==
    /\ HandshakeTypeOK
    /\ \A c \in Conn :
        Reached(c, "accepted") /\ c \notin edited /\ registry.manifest # Developer =>
            /\ conn[c].exe = registry.binary
            /\ readable.manifest =>
                  /\ \A k \in KeysOf[registry.manifest] :
                        conn[c].with[k] = registry.manifest
                  /\ pristine => conn[c].with = Installed

(* A connection is denied for a reason: when nothing failed or interfered  *)
(* during the handshake and the manifest has been as installed since the   *)
(* hub started, then the process is not the one that was installed.  (A    *)
(* developer's manifest that the hub cannot read is the exception: before  *)
(* it has been described, the hub compares its checksum with "developer".) *)
DeniedForReason ==
    \A c \in Conn :
        Reached(c, "denied") /\ c \notin disturbed /\ pristine =>
            IF registry.manifest = Developer THEN ~ readable.manifest
            ELSE \/ conn[c].exe # registry.binary
                 \/ readable.binary /\ ~ conn[c].same
=============================================================================
