SPECIFICATION TablesSpec
CONSTANTS
  Word = 256
  Half = 16
  Field = 64
  TextVA = 32
  DataVA = 64
  ImportVA = 192
  Text = 80
  Data = 112
  SlotAt <- MCSlotAt
  Files <- MCFiles
  Objects <- MCObjects
  Local = Local
  coreinit = coreinit
  gx2 = gx2
INVARIANT RelocationDone
