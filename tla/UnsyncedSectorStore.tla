------------------------ MODULE UnsyncedSectorStore ------------------------
(***************************************************************************)
(* unsynced_sector_manager/unsynced_sector_store.{h,cc}: the sectors of    *)
(* one device that still have to be copied, each with the time it was      *)
(* last written, and the cursor of the sweep that hands them out.  Every   *)
(* method holds mutex_ throughout, so each is one step.                    *)
(*                                                                         *)
(* The boost interval_map is a function from sectors to times.  Its        *)
(* partial_absorber trait makes the time 0 mean "not in the map", and its  *)
(* inplace_max combiner keeps the later of two times.  Its segments are    *)
(* the maximal runs of sectors with one time.                              *)
(***************************************************************************)
EXTENDS Integers

CONSTANTS
  NumSectors,       \* the size of the device
  VolatileSeconds   \* VOLATILE_SECONDS, 10 in the code

ASSUME StoreAssumption ==
  /\ NumSectors \in Nat \ {0}
  /\ VolatileSeconds \in Nat \ {0}

VARIABLES
  unsynced_sector_map_,     \* sector |-> time of its last write, 0 if absent
  synced_sector_set_,       \* sectors removed since the history was cleared
  end_of_last_continuous_   \* the end of the interval handed out last

store == <<unsynced_sector_map_, synced_sector_set_, end_of_last_continuous_>>

Sectors == 0 .. NumSectors - 1

\* SectorInterval: the right-open interval [lower, upper)
Interval == [lower : 0 .. NumSectors, upper : 0 .. NumSectors]
In(I) == I.lower .. I.upper - 1

StoreTypeOK ==
  /\ unsynced_sector_map_ \in [Sectors -> Nat]
  /\ synced_sector_set_ \subseteq Sectors
  /\ end_of_last_continuous_ \in 0 .. NumSectors

StoreInit ==
  /\ unsynced_sector_map_ = [s \in Sectors |-> 0]
  /\ synced_sector_set_ = {}
  /\ end_of_last_continuous_ = 0

-----------------------------------------------------------------------------

Marked(s) == unsynced_sector_map_[s] # 0

UnsyncedSectors == {s \in Sectors : Marked(s)}

\* unsynced_sector_map_ += (set, time)
AddedAt(map, set, time) ==
  [s \in Sectors |-> IF s \in set /\ map[s] < time THEN time ELSE map[s]]

\* unsynced_sector_map_ -= set
Without(map, set) == [s \in Sectors |-> IF s \in set THEN 0 ELSE map[s]]

AddInterval(set, epoch) ==
  /\ epoch > VolatileSeconds
  /\ unsynced_sector_map_' = AddedAt(unsynced_sector_map_, set, epoch)
  /\ UNCHANGED <<synced_sector_set_, end_of_last_continuous_>>

AddNonVolatileInterval(set) ==
  /\ unsynced_sector_map_' = AddedAt(unsynced_sector_map_, set, 1)
  /\ UNCHANGED <<synced_sector_set_, end_of_last_continuous_>>

RemoveInterval(set) ==
  /\ unsynced_sector_map_' = Without(unsynced_sector_map_, set)
  /\ synced_sector_set_' = synced_sector_set_ \cup set
  /\ UNCHANGED end_of_last_continuous_

-----------------------------------------------------------------------------
(* GetInterval *)

\* The segments of the map: the maximal runs of marked sectors of one time.
Segments ==
  {I \in Interval :
     /\ I.lower < I.upper
     /\ Marked(I.lower)
     /\ \A s \in In(I) : unsynced_sector_map_[s] = unsynced_sector_map_[I.lower]
     /\ I.lower > 0 =>
          unsynced_sector_map_[I.lower - 1] # unsynced_sector_map_[I.lower]
     /\ I.upper < NumSectors =>
          unsynced_sector_map_[I.upper] # unsynced_sector_map_[I.lower]}

Lowest(set) == {I \in set : \A J \in set : I.lower <= J.lower}

\* mutant: the sweep does not wrap round to the first segment
SelectedWithoutWrap ==
  LET after == {I \in Segments : I.lower > end_of_last_continuous_}
  IN  IF after # {} THEN Lowest(after) ELSE {[lower |-> 0, upper |-> 0]}

(* The first segment that starts after the end of the last one, or the      *)
(* first of all when there is none, or [0, 0) when the map is empty.        *)
Selected ==
  LET after == {I \in Segments : I.lower > end_of_last_continuous_}
  IN  IF after # {} THEN Lowest(after)
      ELSE IF Segments # {} THEN Lowest(Segments)
      ELSE {[lower |-> 0, upper |-> 0]}

IsVolatileSectorLate(s, epoch) ==   \* mutant: the window is off by one
  unsynced_sector_map_[s] > epoch - VolatileSeconds + 1

IsVolatileSector(s, epoch) == unsynced_sector_map_[s] > epoch - VolatileSeconds

\* The value GetInterval returns with the interval I.
IsVolatile(I, epoch) ==
  I.lower < I.upper /\ IsVolatileSector(I.lower, epoch)

\* GetInterval hands out I; the caller takes IsVolatile(I, epoch) with it.
GetInterval(I) ==
  /\ I \in Selected
  /\ end_of_last_continuous_' = I.upper
  /\ UNCHANGED <<unsynced_sector_map_, synced_sector_set_>>

-----------------------------------------------------------------------------

ClearIntervals ==
  /\ unsynced_sector_map_' = [s \in Sectors |-> 0]
  /\ synced_sector_set_' = {}
  /\ UNCHANGED end_of_last_continuous_

ClearSyncHistory ==
  /\ synced_sector_set_' = {}
  /\ UNCHANGED <<unsynced_sector_map_, end_of_last_continuous_>>

\* The time is 0, which the map absorbs.
ReInsertSyncHistory ==
  /\ unsynced_sector_map_' =
       AddedAt(unsynced_sector_map_, synced_sector_set_, 0)
  /\ synced_sector_set_' = {}
  /\ UNCHANGED end_of_last_continuous_

=============================================================================
