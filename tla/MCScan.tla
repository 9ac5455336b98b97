------------------------------ MODULE MCScan ------------------------------
(* A small tree.  In src/, Makefile has the name of a file at the top, and *)
(* the link doc has the name of a directory at the top; doc/ has neither.  *)
EXTENDS Scan

CONSTANTS make, src, doc, srcMake, lib, deep, docLink, sub

ParentDef == [e \in Entry |->
  CASE e \in {make, src, doc} -> Root [] e \in {srcMake, lib, docLink} -> src
    [] e = deep -> lib [] e = sub -> doc]

NameDef == [e \in Entry |->
  CASE e \in {make, srcMake} -> "Makefile" [] e = src -> "src"
    [] e \in {doc, docLink} -> "doc" [] e = lib -> "lib"
    [] e = deep -> "deep" [] e = sub -> "sub"]

KindDef == [e \in Entry |->
  CASE e \in {make, srcMake} -> "file" [] e = docLink -> "link" [] OTHER -> "dir"]
=============================================================================
