---------------------------- MODULE MCConfiguration ----------------------------
(***************************************************************************)
(* Two machines of one environment, a value of another environment beside  *)
(* theirs, and steps that set a variable, change one attribute, mark one   *)
(* for deletion, append without a key, or are meant for another file.      *)
(***************************************************************************)
EXTENDS Configuration, TLC

CONSTANTS anna, boris, web, worker

MCEnvironmentOf == [m \in Machines |-> "live"]

Setting(key, value, parent) == Element("add", ("key" :> key) @@ ("value" :> value), parent)

Compilation(debug, more) == Element("compilation", ("debug" :> debug) @@ more, 1)

MCDocuments ==
  {<<Element("configuration", NoAttributes, 0),
     Compilation("true", "lang" :> "cs"),
     Element("appSettings", "file" :> "local.config", 1),
     Setting("mode", "old", 3),
     Setting("site", "none", 3)>>}

Leaf(e) == Change(e.name, e.attributes, NoKey, {}, e.parent)

Root == Change("configuration", NoAttributes, NoKey, {}, 0)

Settings(key) == Change("appSettings", NoAttributes, key, {}, 1)

MCContents ==
  {<<Root, Settings("key"), Leaf(Setting("site", Variable, 2)), Leaf(Setting("new", "x", 2))>>,
   <<Root, Settings("key"), Leaf(Setting("mode", "x", 2)), Leaf(Compilation("false", NoAttributes))>>,
   <<Root, Leaf(Compilation(DeletionMarker, NoAttributes))>>,
   <<Root, Settings(NoKey), Leaf(Setting("mode", "x", 2)), Leaf(Setting("more", "x", 2))>>,
   <<Change("web", NoAttributes, NoKey, {}, 0)>>}

UserSymmetry == Permutations(Users)
=============================================================================
