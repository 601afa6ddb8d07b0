------------------------------ MODULE MCTools -------------------------------
(***************************************************************************)
(* The tools a tab does not need to be installed with, for TLC: key         *)
(* bindings, the update of tabber itself, the tabs and the catalogue it     *)
(* keeps, and the settings of its windows.                                  *)
(***************************************************************************)
EXTENDS Bindings, Update, Store, Settings, TLC

CONSTANTS t1, t2, g1, g2, v1, v2

(* keys.vars as two games may have written it: three players, the third with *)
(* one action only, some controls shared and some not, in two orders.        *)
Line(player, action, key) == [name |-> <<player, action>>, value |-> key]
File1 == <<Line(1, "left", "a"), Line(1, "jump", "b"), Line(2, "left", "x"),
           Line(2, "jump", "b"), Line(3, "left", "x")>>
File2 == <<Line(2, "jump", "x"), Line(1, "left", "a"), Line(1, "jump", "b"),
           Line(2, "jump", "b"), Line(2, "left", "a")>>
AllFiles == {File1, File2}
AllLists == {<<>>, <<1, 2>>, <<2, 1, 2>>, <<2>>, <<1, 2, 3>>, <<1, 9>>}

(* Releases: a suffix of the version that runs, a binary that does not start, *)
(* one that does not say what it is, and one with no build for a window.      *)
V(fields, suffix) == [fields |-> fields, suffix |-> suffix]
B(is, runs)       == [is |-> is, runs |-> runs, described |-> TRUE]
Both(key, build)  == <<key, "">> :> build @@ <<key, "-gui">> :> build
First == [is |-> V(<<1, 1>>, FALSE), runs |-> TRUE, whole |-> TRUE]
AllReleases == {
  [version |-> V(<<1, 1>>, TRUE),     builds |-> Both("any", B(V(<<1, 1>>, TRUE), TRUE))],
  [version |-> V(<<1, 2>>, TRUE),     builds |-> Both("exact", B(V(<<1, 2>>, TRUE), FALSE))],
  [version |-> V(<<1, 2, 0>>, FALSE), builds |-> Both("any", B(V(<<1, 2, 0>>, FALSE), TRUE))],
  [version |-> V(<<1, 10>>, FALSE),
   builds |-> <<"exact", "">> :> B(V(<<1, 2, 0>>, FALSE), TRUE)]}
Order == V(<<1, 1>>, TRUE) :> 1 @@ V(<<1, 1>>, FALSE) :> 2 @@ V(<<1, 2>>, TRUE) :> 3
         @@ V(<<1, 2, 0>>, FALSE) :> 4 @@ V(<<1, 10>>, FALSE) :> 5
Windows11 == [locked |-> TRUE, follows |-> FALSE]
Linux     == [locked |-> FALSE, follows |-> TRUE]
MacOS     == [locked |-> FALSE, follows |-> FALSE]
AllWorlds == {[window |-> TRUE] @@ s : s \in {Windows11, Linux, MacOS}}
             \cup {[window |-> FALSE] @@ s : s \in {Windows11}}

(* Tabs: one of two files, one of one; a catalogue that drops one of them and  *)
(* changes the other; a download that is not a sound archive.                  *)
TwoShelves == {t1, t2}
Pack(fs, size, md5, sound) ==
  [files |-> fs, palettes |-> {}, size |-> size, disk |-> size, md5 |-> md5,
   sound |-> sound, safe |-> TRUE]
AllPacks == {Pack({g1, g2}, 2, "A", TRUE), Pack({g2}, 1, "B", TRUE), Pack({g2}, 1, "C", FALSE)}
Promise(fs, size, md5) ==
  [files |-> fs, palettes |-> {}, size |-> size, disk |-> size, md5 |-> md5]
Catalogue == t1 :> Promise({g1, g2}, -1, Missing) @@ t2 :> Promise({g2}, 1, "B")
AllCatalogues == {Catalogue, t1 :> Promise({g1}, 2, "A"), Broken}
AllBesides == {[record |-> Missing, digest |-> Missing, tabs |-> Missing],
               [record |-> t1 :> "down", digest |-> Catalogue, tabs |-> t1 :> {g1, g2}]}

TwoWindows == {v1, v2}
=============================================================================
