SPECIFICATION SSpec
CONSTANTS
  make = make
  src = src
  doc = doc
  srcMake = srcMake
  lib = lib
  deep = deep
  docLink = docLink
  sub = sub
  Root = Root
  Entry = {make, src, doc, srcMake, lib, deep, docLink, sub}
  Parent <- ParentDef
  Name <- NameDef
  Kind <- KindDef
  Dots = {dot, dotdot}
  Locked = {lib, Root}
  Initial = {make, src, srcMake, lib, docLink, doc, sub}
  MaxWatches = 6
  MaxChanges = 0
CHECK_DEADLOCK FALSE
INVARIANT AllWatched
