------------------------------- MODULE Memory -------------------------------
(***************************************************************************)
(* The sensitive memory of one CLI call: for each buffer the number of     *)
(* bytes it occupies (0: not allocated), and the buffers that were         *)
(* released with some of their bytes not wiped.  sodium_munlock wipes the  *)
(* whole range it is given whether or not the lock can be undone (the code *)
(* falls back on sodium_memzero), so what a release leaves behind depends  *)
(* only on the length it is called with.                                   *)
(***************************************************************************)
EXTENDS Naturals

\* "reading" is the local buffer of cli_input_read_stream_limited, "fixed"
\* the three arrays inside struct salt_cli_state, the others its pointers.
Buffers == {"reading", "stdin_key", "stdin_plaintext", "argv_plaintext_copy",
            "trimmed_key_input", "output", "fixed"}

VARIABLES heap,     \* heap[b]: bytes allocated for b
          residue   \* buffers given back with bytes not wiped

memoryVars == <<heap, residue>>

MemoryTypeOK == /\ heap \in [Buffers -> Nat]
                /\ residue \in SUBSET Buffers

MemoryInit == /\ heap = [b \in Buffers |-> 0]
              /\ residue = {}

\* A new allocation of size bytes for b.
Alloc(b, size) == /\ heap' = [heap EXCEPT ![b] = size]
                  /\ UNCHANGED residue

\* cli_secure_release_buffer: wipe len bytes of b and free it.
Release(b, len) ==
    /\ heap' = [heap EXCEPT ![b] = 0]
    /\ residue' = IF len < heap[b] THEN residue \cup {b} ELSE residue

\* The owner of an allocation changes, its bytes stay.
HandOver(from, to) ==
    /\ heap' = [heap EXCEPT ![to] = heap[from], ![from] = 0]
    /\ UNCHANGED residue

\* Wipe wipe[b] bytes of every allocated buffer of a set and free them all.
ReleaseAll(bs, wipe) ==
    /\ heap' = [b \in Buffers |-> IF b \in bs THEN 0 ELSE heap[b]]
    /\ residue' = residue \cup {b \in bs : wipe[b] < heap[b]}
=============================================================================
