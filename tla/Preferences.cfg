SPECIFICATION AllSpec
CONSTANTS
  dark = dark
  build = build
  hop = hop
  k1 = k1
  k2 = k2
  k3 = k3
  light = light
  mine = mine
  keyword = keyword
  red = red
  f = f
  g = g
  h = h
  a = a
  b = b
  c1 = c1
  c2 = c2
  c3 = c3
  bad = bad
  odd = odd
  usual = usual
  noName = noName
  none = none
  Order <- MCOrder
  WithItem = {build}
  Keys = {k1, k2, k3}
  Default <- MCDefault
  Half = half
  Reserved = reserved
  Nonsense = nonsense
  Cleared = cleared
  NoKey = noKey
  NoCommand = noCommand
  Dark = dark
  Builtins = {dark, light}
  Names = {mine}
  Roles = {keyword}
  Colors = {red}
  Files = {f, g, h}
  Limit = 2
  Written <- MCWritten
  Absent = absent
  Corrupt = corrupt
  FirstFiles <- MCFirstFiles
  Uses <- MCUses
INVARIANT ChoicesKept
CHECK_DEADLOCK FALSE
