----------------------------- MODULE SyncedFile -----------------------------
(***************************************************************************)
(* What a protected file promises its user: sync atomicity.                *)
(*                                                                         *)
(* The file is a sequence of cells.  A write in progress is visible cell   *)
(* by cell, and nothing else changes what the user of an open file sees; a *)
(* sync makes everything written so far the committed content; a crash     *)
(* discards what was written since the last sync, all of it and nothing    *)
(* else, and the file can be opened again.                                 *)
(***************************************************************************)
EXTENDS Integers, Sequences

CONSTANTS Value,    \* what a cell may hold
          MaxSize   \* the most cells a file may have

VARIABLES content,  \* the cells as the user sees them, or will when the file opens
          synced,   \* the cells as of the last successful sync
          open,     \* the file is open
          writing   \* the rest of the write in progress, <<offset, length, value>>

vars == <<content, synced, open, writing>>

NoWrite == <<0, 0, 0>>

Init ==
  /\ content = <<>> /\ synced = <<>>
  /\ open = TRUE /\ writing = NoWrite

Begin(offset, n, v) ==
  /\ open /\ writing = NoWrite
  /\ offset <= Len(content) /\ offset + n <= MaxSize
  /\ writing' = <<offset, n, v>>
  /\ UNCHANGED <<content, synced, open>>

\* The next n cells of the write; the file grows when they pass its end.
Write(n) ==
  LET offset == writing[1]
      end    == offset + n
  IN
  /\ open /\ n <= writing[2]
  /\ content' = [i \in 1..(IF end > Len(content) THEN end ELSE Len(content)) |->
                   IF offset < i /\ i <= end THEN writing[3] ELSE content[i]]
  /\ writing' = IF n = writing[2] THEN NoWrite ELSE <<end, writing[2] - n, writing[3]>>
  /\ UNCHANGED <<synced, open>>

\* The write returns an error, and what it has not written yet stays unwritten.
GiveUp ==
  /\ open /\ writing' = NoWrite
  /\ UNCHANGED <<content, synced, open>>

Sync ==
  /\ open /\ synced' = content
  /\ UNCHANGED <<content, open, writing>>

Crash ==
  /\ open /\ open' = FALSE
  /\ content' = synced /\ writing' = NoWrite
  /\ UNCHANGED synced

Open ==
  /\ ~open /\ open' = TRUE
  /\ UNCHANGED <<content, synced, writing>>

Next ==
  \/ \E offset \in 0..MaxSize, n \in 1..MaxSize, v \in Value : Begin(offset, n, v)
  \/ \E n \in 1..MaxSize : Write(n)
  \/ GiveUp \/ Sync \/ Crash \/ Open

Spec == Init /\ [][Next]_vars
=============================================================================
