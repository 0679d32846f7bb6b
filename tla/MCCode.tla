------------------------------ MODULE MCCode ------------------------------
EXTENDS CodeGraph, TLC

\* Constructors of files, facts and nodes.
Path(dir, stem, ext) == [dir |-> dir, stem |-> stem, ext |-> ext]

Facts(language, calls, imports, bases, names, impl) ==
  [language |-> language, calls |-> calls, imports |-> imports, bases |-> bases,
   names |-> names, impl_type |-> impl]

Plain(language) == Facts(language, {}, << >>, << >>, {}, << >>)
Calling(language, calls) == Facts(language, calls, << >>, << >>, {}, << >>)

CallAt(form, qualifier, name) == [form |-> form, qualifier |-> qualifier, name |-> name, line |-> 9]
Bare(name) == CallAt("bare", << >>, name)
Member(qualifier, name) == CallAt("member", qualifier, name)
SelfCall(name) == CallAt("self", << >>, name)
Word(name) == [form |-> "word", qualifier |-> << >>, name |-> name, line |-> 1]
Call(name) == [Word(name) EXCEPT !.form = "call"]

Import(module, symbol, local) == [module |-> module, symbol |-> symbol, local |-> local]

MCNode(file, type, name, start, end, facts) ==
  [id |-> <<file.dir, file.stem, type, name>>, name |-> name, type |-> type, file |-> file,
   start |-> start, end |-> end, text |-> "", crate |-> << >>, facts |-> facts]

\* A file of top-level nodes, or of nodes with the given owners.
Staged(file, facts, nodes, owner) ==
  [nodes |-> <<MCNode(file, "File", "/file", 1, 9, facts)>> \o nodes, owner |-> <<0>> \o owner]

-----------------------------------------------------------------------------
(* Lexical files: two that define and mention names, one of which overloads. *)

Swift1 == Path(<< >>, "one", "swift")
Swift2 == Path(<< >>, "two", "swift")
Swift3 == Path(<< >>, "three", "swift")
Lexical == Plain("lexical")
Tokens(tokens) == Calling("lexical", tokens)

LexicalProject ==
  (Swift1 :> <<Gone,
     Staged(Swift1, Lexical, <<MCNode(Swift1, "Function", "run", 2, 4, Tokens({Word("run"), Call("stop")})),
                               MCNode(Swift1, "Variable", "x", 3, 3, Tokens({Call("stop")}))>>, <<1, 2>>)>>)
  @@ (Swift2 :>
    <<Staged(Swift2, Lexical, <<MCNode(Swift2, "Function", "stop", 2, 2, Tokens({Word("stop"), Call("run")}))>>, <<1>>),
     Staged(Swift2, Lexical, <<MCNode(Swift2, "Struct", "run", 2, 5, Lexical),
                               MCNode(Swift2, "Method", "stop", 3, 4, Tokens({Word("run"), Word("stop")}))>>, <<1, 2>>)>>)
  @@ (Swift3 :>
    <<Gone, Staged(Swift3, Lexical, <<MCNode(Swift3, "Function", "stop", 2, 2, Tokens({Call("stop")})),
                               MCNode(Swift3, "Variable", "y", 3, 3, Tokens({Call("run"), Word("run")}))>>, <<1, 1>>)>>)

-----------------------------------------------------------------------------
(* A Python package that re-exports its core, and a program that uses it. *)

Core == Path(<<"app">>, "core", "py")
Package == Path(<<"app">>, "__init__", "py")
Program == Path(<< >>, "program", "py")

PyFunction(file, name, start, calls) ==
  MCNode(file, "Function", name, start, start, Calling("python", calls))
PyClass(file, name, start, end, bases) ==
  MCNode(file, "Class", name, start, end, Facts("python", {}, << >>, bases, {}, << >>))

CoreVersions ==
  LET File_ == Plain("python") IN
  <<Staged(Core, File_, <<PyFunction(Core, "run", 2, {}), PyClass(Core, "Base", 3, 5, << >>),
                         PyFunction(Core, "m", 4, {})>>, <<1, 1, 3>>),
   Staged(Core, File_, <<PyClass(Core, "Base", 3, 5, <<Bare("Root")>>),
                         PyClass(Core, "Root", 6, 8, << >>),
                         PyFunction(Core, "m", 7, {SelfCall("m")})>>, <<1, 1, 3>>)>>

PackageVersions ==
  <<Staged(Package, Facts("python", {}, <<Import(<<"app", "core">>, "run", "start"),
                                         Import(<<"app", "core">>, "Base", "Base")>>, << >>, {}, << >>), << >>, << >>),
   Staged(Package, Facts("python", {}, <<Import(<<"app", "core">>, "*", "*")>>, << >>, {}, << >>),
          <<PyFunction(Package, "start", 2, {Bare("run")})>>, <<1>>)>>

ProgramVersions ==
  <<Staged(Program, Facts("python", {Bare("start")},
             <<Import(<<"app">>, "start", "start"), Import(<<"app">>, "Base", "Base")>>, << >>, {<<"Base">>}, << >>),
          <<PyClass(Program, "Sub", 2, 4, <<Bare("Base")>>),
            PyFunction(Program, "go", 3, {SelfCall("m"), Member(<<"Base">>, "m")})>>, <<1, 2>>),
   Staged(Program, Facts("python", {Bare("run"), Member(<<"app">>, "start"), CallAt("chained", << >>, "m")},
             <<Import(<<"app">>, Whole, "app")>>, << >>, {}, << >>), << >>, << >>)>>

PythonProject == (Core :> CoreVersions) @@ (Package :> PackageVersions) @@ (Program :> ProgramVersions)

-----------------------------------------------------------------------------
(* A Rust package: a library that re-exports a type of its module, and a program *)
(* that uses it under the package's name. *)

Cargo == Path(<< >>, "Cargo", "toml")
Lib == Path(<<"src">>, "lib", "rs")
Util == Path(<<"src">>, "util", "rs")
Main == Path(<<"src">>, "main", "rs")

RsNode(file, type, name, start, end, calls) ==
  MCNode(file, type, name, start, end, Calling("rust", calls))
RsUses(imports) == Facts("rust", {}, imports, << >>, {}, << >>)
Impl(file, type, start, end, traits) ==
  [MCNode(file, "Class", type, start, end, Facts("rust", {}, << >>, traits, {}, <<Bare(type)>>))
   EXCEPT !.id = <<file.dir, file.stem, "impl", type>>]
Mod(file, name, line) ==
  [MCNode(file, "Module", name, line, line, Plain("rust")) EXCEPT !.text = "declares"]

ManifestOf(names) ==
  [nodes |-> <<[MCNode(Cargo, "DataFile", "/file", 1, 3, Plain("lexical")) EXCEPT !.crate = names]>>,
   owner |-> <<0>>]

LibVersions ==
  <<Staged(Lib, RsUses(<<Import(<<"util">>, "Tool", "Tool")>>),
           <<Mod(Lib, "util", 1),
             RsNode(Lib, "Function", "run", 3, 4, {Member(<<"Tool">>, "new"), Member(<<"util">>, "help")})>>, <<1, 1>>),
    Staged(Lib, RsUses(<<Import(<<"util">>, "*", "*")>>),
           <<Mod(Lib, "util", 1),
             RsNode(Lib, "Struct", "Other", 2, 2, {}),
             RsNode(Lib, "Function", "run", 3, 4, {Bare("help"), Member(<<"Tool">>, "new")})>>, <<1, 1, 1>>),
    Staged(Lib, Plain("rust"), <<RsNode(Lib, "Function", "run", 3, 4, {Bare("run"), CallAt("chained", << >>, "go")})>>, <<1>>)>>

UtilVersions ==
  <<Staged(Util, Plain("rust"),
           <<RsNode(Util, "Struct", "Tool", 1, 1, {}), Impl(Util, "Tool", 2, 5, <<Bare("Job")>>),
             RsNode(Util, "Method", "new", 3, 3, {}),
             RsNode(Util, "Method", "go", 4, 4, {SelfCall("new"), SelfCall("rest")}),
             RsNode(Util, "Trait", "Job", 6, 8, {}), RsNode(Util, "Method", "rest", 7, 7, {}),
             RsNode(Util, "Function", "help", 9, 9, {})>>, <<1, 1, 3, 3, 1, 6, 1>>),
    Staged(Util, RsUses(<<Import(<<"crate">>, "Other", "Tool")>>),
           <<Impl(Util, "Tool", 2, 5, << >>),
             RsNode(Util, "Method", "new", 3, 3, {CallAt("chained", << >>, "go")})>>, <<1, 2>>),
    Gone>>

MainVersions ==
  <<Staged(Main, RsUses(<<Import(<<"kit">>, "Tool", "Tool")>>),
           <<RsNode(Main, "Function", "main", 2, 8, {Member(<<"Tool">>, "new"), Bare("help")}),
             [RsNode(Main, "Variable", "help", 3, 3, {}) EXCEPT !.text = "let"]>>, <<1, 2>>),
    Staged(Main, RsUses(<<Import(<<"kit", "util">>, "*", "*")>>),
           <<RsNode(Main, "Function", "main", 2, 8, {Member(<<"kit">>, "run"), Bare("help"), Member(<<"Tool">>, "rest")})>>,
           <<1>>)>>

RustProject ==
  (Cargo :> <<ManifestOf(<<"kit">>), ManifestOf(<<"kit", "box">>)>>)
  @@ (Lib :> LibVersions) @@ (Util :> UtilVersions) @@ (Main :> MainVersions)

-----------------------------------------------------------------------------
(* A Python program whose layout changes: a directory that may become a package, *)
(* and a module of the same name at the top.                                     *)

Marker == Path(<<"src">>, "__init__", "py")
Tool == Path(<<"src">>, "tool", "py")
Top == Path(<< >>, "tool", "py")
User == Path(<< >>, "user", "py")

PyFile(file, imports, calls, names) ==
  Staged(file, Facts("python", calls, imports, << >>, names, << >>), << >>, << >>)

MarkerVersions ==
  <<Gone,
    PyFile(Marker, << >>, {}, {}),
    PyFile(Marker, <<Import(<<"src", "tool">>, "run", "start"), Import(<<"tool">>, "*", "*")>>, {}, {})>>

ToolVersions ==
  <<Staged(Tool, Plain("python"), <<PyFunction(Tool, "run", 2, {}), PyClass(Tool, "Base", 3, 5, << >>),
                                    PyFunction(Tool, "m", 4, {})>>, <<1, 1, 3>>),
    Gone>>

TopVersions ==
  <<Gone,
    PyFile(Top, << >>, {}, {}),
    Staged(Top, Facts("python", {}, <<Import(<<"src">>, "*", "*")>>, << >>, {}, << >>),
           <<PyFunction(Top, "run", 2, {})>>, <<1>>)>>

ImporterVersions ==
  <<PyFile(User, <<Import(<<"tool">>, "run", "run"), Import(<<"src">>, "start", "start")>>,
           {Bare("run"), Bare("start")}, {<<"run">>}),
    PyFile(User, <<Import(<<"tool">>, Whole, "tool"), Import(<<"src", "tool">>, Whole, "src")>>,
           {Member(<<"tool">>, "run"), Member(<<"src", "tool">>, "run")}, {}),
    Staged(User, Facts("python", {Bare("run")},
                       <<Import(<<"src">>, "*", "*"), Import(<<"tool">>, "Base", "Base")>>, << >>, {}, << >>),
           <<PyClass(User, "tool", 2, 4, <<Bare("Base")>>),
             PyFunction(User, "py", 3, {SelfCall("m"), Member(<<"Base">>, "m")})>>, <<1, 2>>)>>

LayoutProject ==
  (Marker :> MarkerVersions) @@ (Tool :> ToolVersions) @@ (Top :> TopVersions) @@ (User :> ImporterVersions)

-----------------------------------------------------------------------------

MCLayouts == [layout |-> LayoutProject]

MCProjects ==
  MCLayouts @@ [lexical |-> LexicalProject, python |-> PythonProject, rust |-> RustProject]

=============================================================================
