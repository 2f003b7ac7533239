------------------------------- MODULE Config -------------------------------
(***************************************************************************)
(* The configuration: config.Init and config.Get of config/config.go, the  *)
(* lookup in the XML document of config/xml.go and the readers of          *)
(* config/reader.go.                                                       *)
(*                                                                         *)
(* An element is a record of its name, its text and its child elements in  *)
(* order.  A document is the sequence of its root, and a pointer is a      *)
(* sequence of at most one document, element or text.                      *)
(***************************************************************************)
EXTENDS Integers, Sequences

CONSTANTS ParseInt,   \* strconv.ParseInt: a function of the texts it accepts
          Elements,   \* elements, and with each of them its children
          Docs,       \* what the files hold; those that cannot be read, nothing
          Names,      \* the names the program asks for
          Paths       \* the paths it asks for

ASSUME ElementsOK == \A e \in Elements : e.children \in Seq(Elements)

ASSUME DocsOK == \A d \in Docs : d = <<>> \/ \E r \in Elements : d = <<r>>

ASSUME PathsOK == /\ \A p \in Paths : p \in Seq(Names)
                  /\ "gffg" \notin Names

(* tinydom: the first of the elements with that name, or nil.               *)
FirstChildElement(kids, name) ==
  LET named == {i \in DOMAIN kids : kids[i].name = name}
  IN  IF named = {} THEN <<>>
      ELSE << kids[CHOOSE i \in named : \A j \in named : i <= j] >>

(* Mutation of Step: a missing element leaves the lookup where it was.      *)
StepOrStay(doc, xml, arg) ==
  LET found == FirstChildElement(IF xml = <<>> THEN doc ELSE xml[1].children, arg)
  IN  IF found = <<>> THEN xml ELSE found

(* One argument of a lookup: where there is no element, be it at the start  *)
(* or because the last one was missing, it is looked up in the document.    *)
Step(doc, xml, arg) ==
  FirstChildElement(IF xml = <<>> THEN doc ELSE xml[1].children, arg)

(* Where a lookup is after each of its arguments.                           *)
Lookup(doc, args) ==
  LET xml[i \in 0 .. Len(args)] ==
        IF i = 0 THEN <<>> ELSE Step(doc, xml[i - 1], args[i])
  IN  xml

(* aXml.Get: the text of the element, or nil.                               *)
GetXml(doc, args) ==
  LET xml == Lookup(doc, args)[Len(args)]
  IN  IF xml = <<>> THEN <<>> ELSE <<xml[1].text>>

FullPath(args) == <<"gffg">> \o args

(* config.Get; conf is nil until Init has been called for an .xml file.     *)
Get(conf, args) == IF conf = <<>> THEN <<>> ELSE GetXml(conf[1], FullPath(args))

(* The readers; a text that is there is used even if it is empty.           *)
String(conf, def) == IF conf = <<>> THEN def ELSE conf[1]

(* Int and Int64.                                                           *)
Int64(conf, def) ==
  IF conf # <<>> /\ conf[1] \in DOMAIN ParseInt THEN ParseInt[conf[1]] ELSE def

Bool(conf) == conf = <<"true">>

Readings(conf) == <<String(conf, "def"), Int64(conf, 7), Bool(conf)>>

-----------------------------------------------------------------------------

VARIABLES iconf,   \* nil, or the document of the last Init
          path,    \* the path that was asked for last
          read     \* what the readers made of it, if it was asked of iconf
configVars == <<iconf, path, read>>

ConfigInit == iconf = <<>> /\ path = <<>> /\ read = {}

(* config.Init of an .xml file; another one is ignored.                     *)
Load == /\ \E d \in Docs : iconf' = <<d>>
        /\ read' = {}
        /\ UNCHANGED path

Ask == /\ path' \in Paths
       /\ read' = {Readings(Get(iconf, path'))}
       /\ UNCHANGED iconf

ConfigSpec == ConfigInit /\ [][Load \/ Ask]_configVars

-----------------------------------------------------------------------------
(* Properties. *)

Defaults == <<"def", 7, FALSE>>

ReadingsOf(e) ==
  <<e.text, IF e.text \in DOMAIN ParseInt THEN ParseInt[e.text] ELSE 7, e.text = "true">>

First(kids, name) ==
  {kids[i] : i \in {i \in DOMAIN kids : /\ kids[i].name = name
                                        /\ \A j \in 1 .. i - 1 : kids[j].name # name}}

(* What a path means from its name k on, with that name in the document:    *)
(* after each further name, the child of that name.                         *)
Meaning(doc, names, k) ==
  LET at[i \in k .. Len(names)] ==
        IF i = k THEN First(doc, names[k])
        ELSE UNION {First(e.children, names[i]) : e \in at[i - 1]}
  IN  at

(* A setting is read from the element its path names under the root gffg,   *)
(* and is the default when there is none: a missing section never lends the *)
(* value of another one.  In a document with another root, which has no     *)
(* setting at all, the lookup may find what a later part of the path names. *)
SettingOfItsPath ==
  LET doc  == iconf[1]
      full == FullPath(path)
      Named(k) == Meaning(doc, full, k)[Len(full)]
  IN  read # {} =>
        IF iconf = <<>> THEN read = {Defaults}
        ELSE IF doc = <<>> \/ doc[1].name = "gffg"
          THEN read = IF Named(1) = {} THEN {Defaults} ELSE {ReadingsOf(e) : e \in Named(1)}
          ELSE read \subseteq {Defaults} \cup {ReadingsOf(e) : e \in UNION {Named(k) : k \in 1 .. Len(full)}}
=============================================================================
