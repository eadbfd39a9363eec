------------------------------ MODULE Directory ------------------------------
(***************************************************************************)
(* Reading a directory in pages: freaddir_sync (src/modules_rs/fs.rs) over  *)
(* the host's fd_readdir, and Dir.readSync (src/modules_js/internal/fs.js). *)
(*                                                                          *)
(* The host writes entries, each a header and a name, from the one that the *)
(* cookie names into a buffer of fixed size, the last one cut off where the *)
(* buffer ends, and says how much it has written: less than the buffer at   *)
(* the end of the directory.                                                *)
(***************************************************************************)
EXTENDS Naturals, SequencesExt, FiniteSetsExt

CONSTANTS Header,    \* size of an entry without its name
          Buffer,    \* size of the buffer, 4096 in the code
          Lengths,   \* lengths that names may have
          MaxEntries \* bound: entries beside "." and ".."
\* A page has room for ".", ".." and any entry more, as one of 4096 has.

VARIABLES entries, \* the directory: the length of each name, dots first
          cookie,  \* #cookie
          fin,     \* #fin
          dataBuf, \* #dataBuf: the entries fetched, by their place
          idx,     \* #idx
          got,     \* what the reader has been given
          over     \* readSync has returned null, or thrown
dvars == <<entries, cookie, fin, dataBuf, idx, got, over>>

Dots == {1, 2}
DirectoryInit ==
    /\ entries \in { <<1, 2>> \o s : s \in BoundedSeq(Lengths, MaxEntries) }
    /\ cookie = 0 /\ fin = FALSE /\ dataBuf = <<>> /\ idx = 0 /\ got = <<>>
    /\ over = "no"

(***************************************************************************)
(* The host (external): how many bytes it writes, and where, counted from   *)
(* the start of the buffer, entry i ends when the first is c + 1.           *)
(***************************************************************************)
EndsAt(i, c) == FoldLeft(LAMBDA n, l : n + Header + l, 0, SubSeq(entries, c + 1, i))
Written(c) == LET all == EndsAt(Len(entries), c)
              IN  IF all < Buffer THEN all ELSE Buffer

(***************************************************************************)
(* freaddir_sync takes entries while the next one ends before what was      *)
(* written does; one that ends right there is not taken.                    *)
(***************************************************************************)
Taken(i, c) == EndsAt(i, c) < Written(c)
Parsed(c) == { i \in c + 1 .. Len(entries) : Taken(i, c) }
\* Mutant: the next page begins one entry later.
NextEntry(c) == Cardinality(Parsed(c)) + c + 1
LastEntry(c) == IF Parsed(c) = {} THEN 0 ELSE Max(Parsed(c))
Fetched(c) == [res    |-> SetToSortSeq(Parsed(c), LAMBDA a, b : a < b),
               fin    |-> Written(c) < Buffer,
               cookie |-> LastEntry(c)]

(***************************************************************************)
(* Dir.readSync: #fetch, then the next entry; an entry that is not there    *)
(* cannot become a Dirent.                                                  *)
(***************************************************************************)
MustFetch == idx = Len(dataBuf) /\ ~fin

ReadSync ==
    /\ over = "no"
    /\ LET page == Fetched(cookie)
           buf  == IF MustFetch
                   THEN dataBuf \o SelectSeq(page.res, LAMBDA i : i \notin Dots)
                   ELSE dataBuf
           end  == IF MustFetch THEN page.fin ELSE fin
       IN  /\ dataBuf' = buf /\ fin' = end
           /\ cookie' = IF MustFetch THEN page.cookie ELSE cookie
           /\ IF idx = Len(buf)
              THEN /\ over' = IF end THEN "null" ELSE "thrown"
                   /\ UNCHANGED <<idx, got>>
              ELSE /\ idx' = idx + 1 /\ got' = Append(got, buf[idx + 1])
                   /\ UNCHANGED over
    /\ UNCHANGED entries

DirectoryNext == ReadSync
DirectorySpec == DirectoryInit /\ [][DirectoryNext]_dvars

(***************************************************************************)
(* Properties.                                                              *)
(***************************************************************************)
DirectoryTypeOK == idx <= Len(dataBuf) /\ cookie \in 0..Len(entries)

(* Whatever the lengths of the names and wherever the pages end, a reader   *)
(* gets the entries in order and each at most once, never gets an exception *)
(* for one, and at the end can miss only the last one the host wrote, which *)
(* ends where the page ends (fs.rs 857-865).                                *)
ListedOnce ==
    /\ got = [k \in 1..Len(got) |-> k + 2]
    /\ over # "thrown"
    /\ over = "null" => Len(got) + 3 >= Len(entries)
=============================================================================
