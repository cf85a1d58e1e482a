------------------------------ MODULE PackageDirs ------------------------------
(***************************************************************************)
(* entconv looks for the ent package that was generated from the schemas:  *)
(* pkgutil goes up from the schemas' directory to a go.mod and maps the    *)
(* import path of the package onto the directories below it.               *)
(*                                                                         *)
(* A directory is the sequence of names that leads to it from the file     *)
(* system's root, an import path the sequence of its elements.  A path is  *)
(* what a program started in cwd calls a directory by, as filepath.Clean   *)
(* leaves it.  What may be found or not is a set of one element or none.   *)
(***************************************************************************)
EXTENDS Integers, FiniteSets, SequencesExt

Path(absolute, names) == [absolute |-> absolute, names |-> names]

\* The directory that a path stands for; "..", if at all, comes first.
Abs(p, cwd) ==
  LET ups == Cardinality({i \in DOMAIN p.names : p.names[i] = ".."})
  IN  IF p.absolute THEN p.names
      ELSE SubSeq(cwd, 1, Len(cwd) - ups) \o SubSeq(p.names, ups + 1, Len(p.names))

\* The relative path to a directory.
Rel(cwd, dir) ==
  LET common == Len(LongestCommonPrefix({cwd, dir}))
  IN  Path(FALSE, [i \in 1..(Len(cwd) - common) |-> ".."] \o SubSeq(dir, common + 1, Len(dir)))

\* goMod: the directories with a go.mod, and the module path in it.  filepath.Dir takes
\* the last name off a path, also one that is "..", and leaves the empty one alone.
FindModuleRoot(goMod, p, cwd) ==
  LET above == {Path(p.absolute, SubSeq(p.names, 1, k)) : k \in 0..Len(p.names)}
      roots == {q \in above : Abs(q, cwd) \in DOMAIN goMod}
  IN  {q \in roots : \A r \in roots : Len(r.names) <= Len(q.names)}

DiskDirForImportPath(goMod, p, cwd, importPath) ==
  LET Module(root) == goMod[Abs(root, cwd)]
      Rest(root) == SubSeq(importPath, Len(Module(root)) + 1, Len(importPath))
  IN  {Path(root.absolute, root.names \o Rest(root)) :
         root \in {r \in FindModuleRoot(goMod, p, cwd) : IsPrefix(Module(r), importPath)}}

EntDirBesideSchema(p, cwd) == Front(Abs(p, cwd)) \o <<"ent">>

\* dirs: the directories there are.
ResolveEntDir(dirs, goMod, p, cwd, importPath) ==
  LET mapped == {Abs(d, cwd) : d \in DiskDirForImportPath(goMod, p, cwd, importPath)} \cap dirs
  IN  IF mapped # {} THEN mapped ELSE {EntDirBesideSchema(p, cwd)} \cap dirs
=============================================================================
