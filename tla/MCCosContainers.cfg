SPECIFICATION ContainersSpec
CONSTANTS
  Items = {x, y}
  Hints = {0, 4}
  CapacityMax = 8
  LengthMax = 5
  HeldMax = 2
  Junk = Junk
  Nothing = Nothing
  Keys = {0, 1, 2, 3, 4, 5}
  NameOf <- KeyNames
  NameHash <- Hashes
  Values = {v, w}
  TableHints = {0}
  EntriesMax = 8
  ReplacedMax = 1
  Absent = Absent
  Zero = Zero
  NoItem = NoItem
  CapacityHints = {0, 1, 2, 3}
  MaxCount = 5
SYMMETRY Symmetry
INVARIANTS CountsExact DictSound TailAgrees
PROPERTIES IsList IsMap IsDeque
