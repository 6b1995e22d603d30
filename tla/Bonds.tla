------------------------------- MODULE Bonds --------------------------------
(***************************************************************************)
(* BondTable, the bonded peers with the most recent first, and the image   *)
(* of it that BondStoreEeprom writes.  A bond is its address: with the     *)
(* same address come the same key and name.  The image is its cells in the *)
(* order they are written: the header with the count, the entries, and the *)
(* CRC in two halves, each of which depends on everything before it.       *)
(***************************************************************************)
EXTENDS Integers, SequencesExt

CONSTANTS
  MaxBonds, \* BondTable::MAX
  Blank     \* a cell that holds no entry

\* indexOf() of a peer that is bonded, and moveToFront().
At(t, p) == CHOOSE i \in 1..Len(t) : t[i] = p
MovedToFront(t, i) == <<t[i]>> \o RemoveAt(t, i)

\* upsert(): to the front, whether it was there or not; the last of a full table is evicted.
Upsert(t, p) ==
  IF Contains(t, p) THEN MovedToFront(t, At(t, p))
  ELSE <<p>> \o SubSeq(t, 1, IF Len(t) < MaxBonds THEN Len(t) ELSE MaxBonds - 1)

\* touch(): to the front if it is there.
Touch(t, p) == IF Contains(t, p) THEN MovedToFront(t, At(t, p)) ELSE t

Erase(t, p) == IF Contains(t, p) THEN RemoveAt(t, At(t, p)) ELSE t

\* crc32() of header and entries; the second half is as good as the first.
Crc(count, entries) == <<"crc", count, entries>>

\* save(): every entry, those beyond the count zeroed.
Filled(t) == [i \in 1..MaxBonds |-> IF i <= Len(t) THEN t[i] ELSE Blank]
Seal(t) == Crc(Len(t), Filled(t))
Image(t) == <<Len(t)>> \o Filled(t) \o <<Seal(t), Seal(t)>>

\* A part that has never been written.
Erased == [i \in 1..(MaxBonds + 3) |-> Blank]

\* Mutant: an image whose CRC is wrong is accepted.
MutantIntact(img) == img[1] # Blank

\* The magic is there and the CRC is that of header and entries.
Intact(img) ==
  /\ img[1] # Blank
  /\ \A i \in {MaxBonds + 2, MaxBonds + 3} : img[i] = Crc(img[1], SubSeq(img, 2, MaxBonds + 1))

\* load(): the table of an intact image without a duplicate, or none.
Load(img) ==
  LET t == SubSeq(img, 2, img[1] + 1)
  IN IF Intact(img) /\ IsInjective(t) THEN t ELSE <<>>

\* The write is cut off after its first n cells.
Torn(old, new, n) == SubSeq(new, 1, n) \o SubSeq(old, n + 1, MaxBonds + 3)
=============================================================================
