------------------------------- MODULE Cipher -------------------------------
(***************************************************************************)
(* Encryption through the kernel's crypto API: the handles, requests and   *)
(* scatterlists of bindings/src/crypto (Aead, Skcipher, SgTable), and the  *)
(* encrypt and decrypt of core's os/linux on top of them.  A task makes a  *)
(* handle for every call, as the protected file does (Aead::new() in       *)
(* node.rs and metadata.rs), or it is given a handle that lives on and     *)
(* that other tasks may use, which the handles' Sync allows.               *)
(*                                                                         *)
(* The kernel's ciphers (external) read assoclen + cryptlen cells through  *)
(* the source list and write through the destination list, with the key    *)
(* the handle has then.  Allocations may fail.                             *)
(***************************************************************************)
EXTENDS Naturals, Sequences, FiniteSets

CONSTANTS
    Task, Keys, NoKey,
    Plain,          \* the plaintexts: sequences of cells
    Common,         \* the handle that lives on
    CommonKind,     \* its kind
    Users           \* the sets of tasks that may use it

Destroyed == "destroyed"

ASSUME CipherAssumption ==
    /\ NoKey \notin Keys /\ Destroyed \notin Keys \cup {NoKey} /\ Common \notin Task
    /\ Users \subseteq SUBSET Task
    /\ \A p \in Plain : p \in Seq({p[i] : i \in DOMAIN p})

VARIABLES
    users,      \* the tasks that use the common handle
    task,       \* the operation of a task and how far it is
    tfm,        \* the cipher handles: destroyed, or the key they have
    requests,   \* the tasks whose request is allocated
    tables,     \* the scatterlist tables of a task that are allocated
    stored,     \* what the task encrypted last, as its caller keeps it
    stale,      \* whether a set_key failed on the common handle
    wrong,      \* tasks of which an operation that reported success did not do what was asked
    dangling    \* a request or a handle was used after its end

cipherVars == <<users, task, tfm, requests, tables, stored, stale, wrong, dangling>>

Kind == {"Aead", "Skcipher"}
IdleTask == [pc |-> "idle", kind |-> "Aead", op |-> "encrypt", key |-> NoKey, text |-> <<>>]
Nothing == [kind |-> "none", key |-> NoKey, plain |-> <<>>, text |-> <<>>, mac |-> <<>>]

HandleOf(t) == IF t \in users THEN Common ELSE t

CipherInit ==
    /\ users \in Users
    /\ task = [t \in Task |-> IdleTask]
    /\ tfm = [h \in Task \cup {Common} |-> IF h = Common THEN NoKey ELSE Destroyed]
    /\ requests = {} /\ tables = [t \in Task |-> 0]
    /\ stored = [t \in Task |-> Nothing]
    /\ stale = FALSE /\ wrong = {} /\ dangling = FALSE

--------------------------------------------------------------------------
\* The kernel's ciphers on cells.
Enc(key, cells) == [i \in DOMAIN cells |-> <<key, cells[i]>>]
Dec(key, cells) == [i \in DOMAIN cells |->
                       IF cells[i][1] = key THEN cells[i][2] ELSE <<"garbled", cells[i]>>]
Mac(key, cells) == <<"mac", key, cells>>

\* AeadReq::encrypt and decrypt: the buffers of the source list, and cryptlen.  The
\* associated data is empty in every call.
AeadSource(op, text, mac) == IF op = "encrypt" THEN text ELSE text \o mac
AeadLenText(op, text, mac) == Len(text)
AeadLen(op, text, mac) == IF op = "encrypt" THEN Len(text) ELSE Len(text) + Len(mac)
\* The last cell of a decryption's source within cryptlen is the tag.
AeadRun(op, key, source, len) ==
    LET cells == SubSeq(source, 1, len)
        text  == IF op = "encrypt" \/ len = 0 THEN cells ELSE SubSeq(cells, 1, len - 1)
    IN  IF op = "encrypt"
        THEN [ok |-> TRUE, text |-> Enc(key, text), mac |-> <<Mac(key, text)>>]
        ELSE [ok |-> len > 0 /\ cells[len] = Mac(key, Dec(key, text)),
              text |-> Dec(key, text), mac |-> <<>>]

\* SkcipherReq::encrypt and decrypt.
SkcipherRun(op, key, text) ==
    [ok |-> TRUE, mac |-> <<>>,
     text |-> IF op = "encrypt" THEN Enc(key, text) ELSE Dec(key, text)]

Run(t, key) ==
    LET op == task[t].op  text == task[t].text  mac == stored[t].mac
    IN  IF task[t].kind = "Skcipher" THEN SkcipherRun(op, key, text)
        ELSE AeadRun(op, key, AeadSource(op, text, mac), AeadLen(op, text, mac))

--------------------------------------------------------------------------
At(t, pc) == task[t].pc = pc
Go(t, pc) == task' = [task EXCEPT ![t].pc = pc]
\* The way out, where the arguments are not needed any more.
Unwind(t, pc) == task' = [task EXCEPT ![t] = [IdleTask EXCEPT !.pc = pc]]

\* Aead::new and Skcipher::new: a handle without a key (a failed allocation panics: the
\* operation does not happen).  A user of the common handle has it already.
NewHandle(t, kind, op, key, text) ==
    /\ At(t, "idle") /\ (t \in users => kind = CommonKind)
    /\ task' = [task EXCEPT ![t] = [pc |-> "set_key", kind |-> kind, op |-> op,
                                    key |-> key, text |-> text]]
    /\ tfm' = IF t \in users THEN tfm ELSE [tfm EXCEPT ![t] = NoKey]
    /\ UNCHANGED <<users, requests, tables, stored, stale, wrong, dangling>>

EncryptCall(t) == \E kind \in Kind, key \in Keys, p \in Plain :
                      NewHandle(t, kind, "encrypt", key, p)
\* The caller passes back what it kept, with the key it kept or with another one.
DecryptCall(t) == /\ stored[t] # Nothing
                  /\ \E key \in Keys :
                        NewHandle(t, stored[t].kind, "decrypt", key, stored[t].text)

\* set_key holds write_access for the call only; its result is not looked at.
SetKey(t) ==
    /\ At(t, "set_key")
    /\ \/ tfm' = [tfm EXCEPT ![HandleOf(t)] = task[t].key] /\ UNCHANGED stale
       \/ stale' = (stale \/ t \in users) /\ UNCHANGED tfm
    /\ dangling' = (dangling \/ tfm[HandleOf(t)] = Destroyed)
    /\ Go(t, "alloc_request")
    /\ UNCHANGED <<users, requests, tables, stored, wrong>>

\* alloc_request, or OutOfMemory.
AllocRequest(t) ==
    /\ At(t, "alloc_request")
    /\ dangling' = (dangling \/ tfm[HandleOf(t)] = Destroyed)
    /\ \/ requests' = requests \cup {t} /\ Go(t, "alloc_tables")
       \/ UNCHANGED requests /\ Unwind(t, "drop")
    /\ UNCHANGED <<users, tfm, tables, stored, stale, wrong>>

\* SgTable::alloc, for the source and then for the destination.
AllocTables(t) ==
    /\ At(t, "alloc_tables")
    /\ \E n \in 0 .. 2 : /\ tables' = [tables EXCEPT ![t] = n]
                        /\ IF n = 2 THEN Go(t, "crypt") ELSE Unwind(t, "free_table")
    /\ UNCHANGED <<users, tfm, requests, stored, stale, wrong, dangling>>

\* set_crypt and crypto_*_encrypt or crypto_*_decrypt.  Without a key the kernel fails.
Crypt(t) ==
    LET key  == tfm[HandleOf(t)]
        run  == Run(t, key)
        ok   == key \in Keys /\ run.ok
        ask  == IF task[t].op = "encrypt"
                THEN run.text = Enc(task[t].key, task[t].text)
                ELSE run.text = Dec(task[t].key, task[t].text)
        again == /\ task[t].op = "decrypt" /\ key \in Keys
                 /\ task[t].key = stored[t].key
    IN  /\ At(t, "crypt")
        /\ stored' = IF ok /\ task[t].op = "encrypt"
                     THEN [stored EXCEPT ![t] = [kind |-> task[t].kind, key |-> task[t].key,
                                                 plain |-> task[t].text, text |-> run.text,
                                                 mac |-> run.mac]]
                     ELSE stored
        /\ wrong' = IF (ok /\ ~ask) \/ (again /\ ~(ok /\ run.text = stored[t].plain))
                    THEN wrong \cup {t} ELSE wrong
        /\ dangling' = (dangling \/ key = Destroyed \/ t \notin requests)
        /\ Unwind(t, "free_table")
        /\ UNCHANGED <<users, tfm, requests, tables, stale>>

\* The tables are dropped, then the request, and at the end the handle.
FreeTableNone(t) == At(t, "free_table") /\ Unwind(t, "free_request")
                    /\ UNCHANGED <<users, tfm, requests, tables, stored, stale, wrong, dangling>>
FreeTable(t) ==
    /\ At(t, "free_table")
    /\ tables' = [tables EXCEPT ![t] = 0]
    /\ Unwind(t, "free_request")
    /\ UNCHANGED <<users, tfm, requests, stored, stale, wrong, dangling>>
FreeRequest(t) ==
    /\ At(t, "free_request")
    /\ requests' = requests \ {t}
    /\ Unwind(t, "drop")
    /\ UNCHANGED <<users, tfm, tables, stored, stale, wrong, dangling>>
DropHandle(t) ==
    /\ At(t, "drop")
    /\ tfm' = IF t \in users THEN tfm ELSE [tfm EXCEPT ![t] = Destroyed]
    /\ Unwind(t, "idle")
    /\ dangling' = (dangling \/ t \in requests)
    /\ UNCHANGED <<users, requests, tables, stored, stale, wrong>>

CipherNext == \E t \in Task :
    \/ EncryptCall(t) \/ DecryptCall(t)
    \/ SetKey(t) \/ AllocRequest(t) \/ AllocTables(t) \/ Crypt(t)
    \/ FreeTable(t) \/ FreeRequest(t) \/ DropHandle(t)

CipherSpec == CipherInit /\ [][CipherNext]_cipherVars

--------------------------------------------------------------------------
\* An operation that returns Ok used the key of its caller, and what it encrypted decrypts
\* again to the same cells, for every task that makes a handle of its own, even when its
\* set_key fails unseen; and for a task that uses a handle again and again as long as no other
\* task uses it and no set_key on it failed, after which the key of an earlier call is used.
CryptsAsAsked ==
    \A t \in wrong : t \in users /\ (users # {t} \/ stale)

\* The "could be used concurrently from multiple threads" of aead.rs, for handles on which
\* every set_key succeeded.  It fails for two users: write_access covers set_key only, and
\* another user's key may come between it and the encryption.
SharedHandleSafe == ~stale => wrong = {}

\* Every way out of an operation frees its tables, its request and its own handle, and
\* nothing is used after its end.
NothingLeft ==
    /\ ~dangling
    /\ \A t \in Task : At(t, "idle") => /\ t \notin requests /\ tables[t] = 0
                                        /\ tfm[t] = Destroyed
============================================================================
