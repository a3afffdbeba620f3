------------------------------ MODULE FileKeys ------------------------------
(***************************************************************************)
(* The keys of a protected file (pfs/sys/keys.rs), the metadata fields     *)
(* that decide how it is opened (pfs/sys/metadata.rs), the modes of the    *)
(* public API (pfs/fs.rs, file/mod.rs) and the checks of open_file         *)
(* (file/open.rs).  Key derivation is what the code does today: the CMAC   *)
(* is a TODO, and derive_key and restore_key return the key they are given.*)
(* Authenticated decryption (external) succeeds with the key of the        *)
(* encryption only.                                                        *)
(***************************************************************************)
EXTENDS Naturals

CONSTANTS
    UserKeys,       \* the keys of the users of the API
    ZeroKey,        \* AeadKey::default()
    FileNames,
    AutoKeys,       \* TRUE: the API is also used without a key
    MAX_USAGES,
    NoFile

VARIABLES
    meta,       \* the metadata node on the disk: NoFile, or its fields
    opened,     \* NoFile, or the open file: its mode, metadata and master key
    uses,       \* how often the open file's master key was handed out
    writer,     \* the mode and the name meta was last written under
    open_error, \* an open under the mode and name of the writer did not succeed
    key_panic   \* an unreachable!() was reached or a failed decryption unwrapped

keyVars == <<meta, opened, uses, writer, open_error, key_panic>>

ASSUME UsagesAssumption == MAX_USAGES \in Nat \ {0}

\* EncryptMode and its conversion to OpenMode.
UserKey(k) == [kind |-> "UserKey", key |-> k]
IntegrityOnly == [kind |-> "IntegrityOnly", key |-> NoFile]
AutoKey == [kind |-> "AutoKey", key |-> NoFile]
OpenMode == {UserKey(k) : k \in UserKeys} \cup {IntegrityOnly}
            \cup IF AutoKeys THEN {AutoKey} ELSE {}

\* EncryptFlags::from(&OpenMode)
EncryptFlags(mode) == mode.kind

\* MetadataKey::new has no automatic key: unreachable!().
HasKeyGen(mode) == mode.kind # "AutoKey"

\* KdfInput::derive_key and restore_key.
kdf_derive_key(key) == key
kdf_restore_key(key) == key

\* MasterKey::new: a count of 0.
NewMaster == [key |-> kdf_derive_key(ZeroKey), count |-> 0]

\* MasterKey::update, once: the master key, and how often it was handed out.
update(m, n) ==
    IF m.count >= MAX_USAGES THEN <<NewMaster, 1>>
    ELSE <<[m EXCEPT !.count = @ + 1], n + 1>>

\* FsKeyGen: the metadata key of a mode, derived by a flush ...
metadata_derive_key(mode) ==
    IF mode.kind = "IntegrityOnly" THEN ZeroKey ELSE kdf_derive_key(mode.key)
\* ... and restored by an open.
metadata_restore_master(mode) == ZeroKey
metadata_restore_key(mode) ==
    IF mode.kind = "IntegrityOnly" THEN ZeroKey ELSE kdf_restore_key(mode.key)

\* Whether update_nodes draws a key for each node from the master key.
DrawsKeys(mode) == mode.kind = "UserKey"

KeysInit ==
    /\ meta = NoFile /\ opened = NoFile /\ uses = 0
    /\ writer = NoFile /\ open_error = FALSE /\ key_panic = FALSE

\* FsKeyGen::new fails for the mode: the call does not return.
KeyGenPanic ==
    /\ key_panic' = TRUE
    /\ UNCHANGED <<opened, uses, open_error>>

\* FileInner::create and new_file: flags and name of a file without nodes.
CreateFile(mode, name) ==
    /\ opened = NoFile
    /\ IF ~HasKeyGen(mode) THEN KeyGenPanic
       ELSE /\ opened' = [mode |-> mode, flags |-> EncryptFlags(mode), name |-> name,
                          master |-> NewMaster, dirty |-> TRUE, mht_key |-> NoFile]
            /\ uses' = 0
            /\ UNCHANGED <<open_error, key_panic>>
    /\ UNCHANGED <<meta, writer>>

\* open_file: the checks in their order.  Another name is found out only after
\* the decryption, another key by it.
NotAFile == meta = NoFile
OtherFlags(mode) == EncryptFlags(mode) # meta.flags
Undecryptable(mode) == metadata_restore_key(mode) # meta.sealed
OtherName(name) == name # meta.name
RootUnreadable == meta.mht_key # NoFile /\ meta.mht_key # meta.root_sealed

OpenFile(mode, name) ==
    /\ opened = NoFile
    /\ LET refused == \/ NotAFile \/ OtherFlags(mode)
                      \/ ~Undecryptable(mode) /\ (OtherName(name) \/ RootUnreadable)
       IN  IF ~HasKeyGen(mode) THEN KeyGenPanic
           ELSE IF refused
           THEN /\ open_error' = (open_error \/ writer = <<mode, name>>)
                /\ UNCHANGED <<opened, uses, key_panic>>
           ELSE IF Undecryptable(mode)
           THEN /\ key_panic' = TRUE
                /\ open_error' = (open_error \/ writer = <<mode, name>>)
                /\ UNCHANGED <<opened, uses>>
           ELSE /\ opened' = [mode |-> mode, flags |-> meta.flags, name |-> meta.name,
                              master |-> NewMaster, dirty |-> FALSE, mht_key |-> meta.mht_key]
                /\ uses' = 0
                /\ UNCHANGED <<open_error, key_panic>>
    /\ UNCHANGED <<meta, writer>>

\* A node of the file is encrypted: in update_nodes a key is derived for it.  The
\* root's key goes to the metadata.
DeriveNode ==
    /\ opened # NoFile
    /\ LET drawn == update(opened.master, uses)
           draws == DrawsKeys(opened.mode)
       IN  /\ opened' = [opened EXCEPT !.master = IF draws THEN drawn[1] ELSE @,
                                       !.mht_key = IF draws THEN kdf_derive_key(drawn[1].key)
                                                   ELSE ZeroKey,
                                       !.dirty = TRUE]
           /\ uses' = IF draws THEN drawn[2] ELSE uses
    /\ UNCHANGED <<meta, writer, open_error, key_panic>>

RenameFile(name) ==
    /\ opened # NoFile
    /\ opened' = [opened EXCEPT !.name = name, !.dirty = TRUE]
    /\ UNCHANGED <<meta, uses, writer, open_error, key_panic>>

\* update_metadata and write_to_disk: the metadata is sealed and written.
FlushKeys ==
    /\ opened # NoFile /\ opened.dirty
    /\ meta' = [flags |-> opened.flags, sealed |-> metadata_derive_key(opened.mode),
                name |-> opened.name, mht_key |-> opened.mht_key,
                root_sealed |-> opened.mht_key]
    /\ writer' = <<opened.mode, opened.name>>
    /\ opened' = [opened EXCEPT !.dirty = FALSE]
    /\ UNCHANGED <<uses, open_error, key_panic>>

CloseFile ==
    /\ opened # NoFile /\ ~opened.dirty
    /\ opened' = NoFile /\ uses' = 0
    /\ UNCHANGED <<meta, writer, open_error, key_panic>>

KeysNext ==
    \/ \E mode \in OpenMode, name \in FileNames : CreateFile(mode, name) \/ OpenFile(mode, name)
    \/ DeriveNode \/ FlushKeys \/ CloseFile
    \/ \E name \in FileNames : RenameFile(name)

KeysSpec == KeysInit /\ [][KeysNext]_keyVars

--------------------------------------------------------------------------
\* A file that was flushed opens again under its mode and its name, and under no
\* other: open_file restores the key update_metadata derived, its checks let the
\* writer through, and an open that changed nothing was made in the writer's mode.
OpensAsWritten ==
    /\ ~open_error
    /\ opened # NoFile /\ ~opened.dirty => writer = <<opened.mode, opened.name>>

\* A master key is replaced in time: MasterKey::update hands none out more than
\* MAX_USAGES times after the call that made it.
UsagesBounded ==
    opened # NoFile => opened.master.count <= MAX_USAGES /\ uses <= MAX_USAGES + 1

\* fs.rs: "Opens a file at `path` with the options specified by `self`": the
\* call returns.
KeyPanicFree == ~key_panic
============================================================================
