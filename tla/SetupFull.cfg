SPECIFICATION CardSpec
CONSTANTS
  Folders <- MCFolders
  Ext <- rpx
  Block = 2
  Line = 4
  Lists <- MCLists
  Word = 64
  Align = 4
  RegionStart = 8
  TextStart = 30
  Pool = 48
  UsedMax = 48
INVARIANT RegionKept
