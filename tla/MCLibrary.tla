----------------------------- MODULE MCLibrary -----------------------------
(***************************************************************************)
(* Small instances of the components that scripts use one at a time.  They  *)
(* share no state, so a behaviour is about one of them, `focus`, and the    *)
(* variables of the others stay at a value that means nothing; CommonJS is  *)
(* extended, and rests where it begins.                                     *)
(***************************************************************************)
EXTENDS CommonJS, FiniteSets

VARIABLE focus

VARIABLES program, made, table, objs, calls, ends, faults, strays
filesVars == <<program, made, table, objs, calls, ends, faults, strays>>
FilesPrograms ==
    LET P(may, kinds, throws, n) == [may |-> may, kinds |-> kinds, throws |-> throws, calls |-> n]
    IN  { P({"open", "close", "closeSync", "dir.read", "readFile"}, {"dir"}, {"never"}, 5),
          P({"open", "close", "closeSync"}, {"dir"}, {"never"}, 6),
          P({"open", "close", "dir.read", "closeSync"}, {"dir"}, {"promise"}, 5),
          P({"open", "close", "handle.readFile", "handle.writeFile", "handle.truncate",
             "read", "writeFile"}, {"handle"}, {"never"}, 4),
          P({"open", "close", "read", "write"}, {"fd"}, {"on success"}, 4),
          P({"readFile", "writeFile", "readdir", "readdirSync", "open", "dir.read"}, {"dir"},
            {"never", "on success", "always"}, 3) }
Files == INSTANCE Files WITH Fd <- {0, 1}, Programs <- FilesPrograms, MaxFaults <- 1
NoFiles == /\ program = 0 /\ made = 0 /\ table = 0 /\ objs = 0 /\ calls = 0
           /\ ends = 0 /\ faults = 0 /\ strays = 0

VARIABLES tree, cp, before, touched
treeVars == <<tree, cp, before, touched>>
Nothing == [kind |-> "none", data |-> 0, to |-> <<>>]
Folder  == [Nothing EXCEPT !.kind = "dir"]
Text(d) == [Nothing EXCEPT !.kind = "file", !.data = d]
Link(p) == [Nothing EXCEPT !.kind = "link", !.to = p]
TreePaths == { <<n>> : n \in {"a", "b"} } \union { <<n, m>> : n \in {"a", "b"}, m \in {"a", "b"} }
SmallTrees ==
    { t \in [TreePaths -> {Nothing, Folder, Text(1), Text(2), Link(<<"a">>), Link(<<"a", "a">>)}] :
        /\ \A p \in TreePaths : Len(p) = 2 /\ t[p] # Nothing => t[<<p[1]>>] = Folder
        /\ t[<<"a">>] \in {Folder, Text(1)}
        /\ t[<<"a", "a">>] \in {Nothing, Text(1), Link(<<"a">>)}
        /\ t[<<"a", "b">>] \in {Nothing, Text(1)}
        /\ t[<<"b">>] \in {Nothing, Folder, Text(2), Link(<<"a">>)}
        /\ t[<<"b", "a">>] \in {Nothing, Text(2), Link(<<"a", "a">>)}
        /\ t[<<"b", "b">>] = Nothing }
Copies == { [src |-> s, dest |-> d, force |-> f, recursive |-> TRUE] :
              s \in {<<"a">>, <<"a", "a">>}, d \in {<<"b">>, <<"b", "a">>}, f \in BOOLEAN }
Tree == INSTANCE FileTree WITH Names <- {"a", "b"}, Trees <- SmallTrees, Copies <- Copies,
                               MaxOthers <- 1
NoTree == tree = 0 /\ cp = 0 /\ before = 0 /\ touched = 0

VARIABLES entries, cookie, fin, dataBuf, idx, listed, over
pagesVars == <<entries, cookie, fin, dataBuf, idx, listed, over>>
Pages == INSTANCE Directory WITH Header <- 2, Buffer <- 13, Lengths <- {1, 3}, MaxEntries <- 7,
                                 got <- listed
NoPages == /\ entries = 0 /\ cookie = 0 /\ fin = 0 /\ dataBuf = 0 /\ idx = 0
           /\ listed = 0 /\ over = 0

\* With ranges, and with no options at all.
StreamRanges == [start : 0..2 \union {6}, end : {-1} \union 1..6]
                \union {[start |-> 0, end |-> -2]}

VARIABLES rs, ws
streamsVars == <<rs, ws>>
Streams == INSTANCE FileStreams WITH Size <- 4, BufferSize <- 6, MaxWrites <- 2,
                                     Ranges <- StreamRanges
NoStreams == rs = 0 /\ ws = 0

VARIABLES events, count, heap, fired, frames, emitted, list, dropped, ran
emitterVars == <<events, count, heap, fired, frames, emitted, list, dropped, ran>>
Emitter == INSTANCE Events WITH Listeners <- {"f"}, MaxCalls <- 4, stack <- frames,
                                calls <- emitted
NoEmitter == /\ events = 0 /\ count = 0 /\ heap = 0 /\ fired = 0 /\ frames = 0
             /\ emitted = 0 /\ list = 0 /\ dropped = 0 /\ ran = 0

VARIABLES from, to
pathVars == <<from, to>>
Paths == INSTANCE Path WITH Chars <- {"/", ".", "a"}, Cwd <- <<".", "/">>, MaxLength <- 4
NoPaths == from = 0 /\ to = 0

VARIABLES enc, pending, fed, said, closed
codecVars == <<enc, pending, fed, said, closed>>
Bytes == [utf8 |-> {65, 128, 144, 194, 226, 240, 248}, utf16le |-> {65, 216, 220},
          base64 |-> {0, 7, 255}, hex |-> {255}]
Text8 == INSTANCE Codecs WITH Alphabet <- Bytes, MaxChunk <- 3, MaxBytes <- 4, over <- closed
NoText8 == enc = 0 /\ pending = 0 /\ fed = 0 /\ said = 0 /\ closed = 0

VARIABLES href, query, setters
urlVars == <<href, query, setters>>
Http == <<"http", ":", "/", "/">>
\* "::" before n pieces, of which the last may be written as of IPv4.
Dotted == <<"1", ".", "0", ".", "0", ".", "1">>
Address(n, tail) ==
    <<"[", ":">> \o [i \in 1..2 * n |-> IF i % 2 = 1 THEN ":" ELSE "1"]
    \o (IF tail = <<>> THEN <<>> ELSE <<":">> \o tail) \o <<"]">>
UrlInputs ==
    { Http \o t : t \in { <<"a">>, <<"a", ":", "8", "0", "/", "c", "?", "a">>,
                          <<"a", "@", "c", "/", ".", ".", "/", "#">>, <<"0", "x", "a">>,
                          <<"[", "1", ":", ":", "1", "]", ":", "1">>,
                          Address(7, <<>>), Address(8, <<>>), Address(5, Dotted), Address(6, Dotted),
                          <<"a", ":", "c", "@", "a", "/", "c", "/", ".">>, <<"W", "/">> } }
    \cup { <<"file", ":">> \o t : t \in { <<"/", "/", "/", "c", ":", "/", "a">>,
                                        <<"/", "/", "a", "/", "c">>, <<"a">> } }
    \cup { <<"x", ":">> \o t : t \in { <<"a", "?", "c", "#", "a">>, <<"/", "/", "/", "a">>,
                                     <<"/", "/", "a", ":", "1">>, <<"/", ".", ".", "/", "/", "a">> } }
UrlRelative == { <<"a">>, <<".", ".", "/", "c">>, <<"/", "/", "c", "/", "a">>, <<"/", "c">>,
                 <<"?", "c">>, <<"#", "a">>, <<>>, <<"c", ":">>, <<"http", ":", "c">>,
                 <<"\\", "\\", "a">> }
UrlParts == { <<>>, <<"a">>, <<"a", ":", "8", "1">>, <<"1", ".", "1">>, <<"/", "/", "a">>,
              <<".", ".", "/">>, <<"?", "a", "=", "c">>, <<"#", "c">>, <<"c", ":">>,
              <<"[", ":", ":", "1", "]">>, <<"8", "0">>, <<"file">>, <<"http">>, <<"x">>,
              <<"@", "W">>, <<"localhost">>, <<"%.", "&", "+", "=">> }
UrlNames == { <<"a">>, <<"&", "=">>, <<"+", " ">> }
Urls == INSTANCE WhatwgURL WITH Inputs <- UrlInputs, Relative <- UrlRelative, Parts <- UrlParts,
                                Names <- UrlNames, MaxSets <- 2,
                                url <- href, list <- query, sets <- setters
NoUrls == href = 0 /\ query = 0 /\ setters = 0

VARIABLES mem, views, last
bufferVars == <<mem, views, last>>
Buffers == INSTANCE Buffers WITH Base <- 4, Contents <- {<<1, 0, 1, 2, 1>>, <<3, 1, 0, 1, 1, 0, 1, 2>>},
    Texts <- { << <<1>>, <<2, 2>> >>, << <<3, 3, 3>>, <<1>> >> },
    Numbers <- {-33, -9, -8, -1, 0, 1, 5, 7, 8, 15, 63, 255, -128, 127, -32768},
    Offsets <- {-2, 0, 1, 3}, MaxViews <- 2, MaxCalls <- 2
NoBuffers == mem = 0 /\ views = 0 /\ last = 0

VARIABLES compared, graph, edits
graphVars == <<compared, graph, edits>>
ComparedPrograms ==
    LET P(kind, other, props, syms, keys, values, n) ==
            [kind |-> kind, other |-> other, props |-> props, syms |-> syms, keys |-> keys,
             values |-> values, edits |-> n, protos |-> {"Object"}, data |-> {0}]
    IN  { [P("object", "object", {"o1", "o2", "o3", "1"}, {"1"}, {}, {}, 4)
             EXCEPT !.protos = {"Object", "null"}],
          [P("other", "object", {"o1", "o3"}, {"1"}, {}, {}, 3) EXCEPT !.data = {0, 1}],
          P("array", "object", {"o1"}, {"1", "null"}, {""}, {"o1", "o3", "1"}, 4),
          P("set", "object", {"o1", "1"}, {}, {"o1", "o3", "1", "'1'"}, {""}, 4),
          P("set", "set", {}, {}, {"o1", "o2", "o3"}, {""}, 4),
          P("map", "object", {"1"}, {}, {"null", "undefined", "1", "o3"}, {"o1", "o2"}, 4) }
Equal == INSTANCE Comparisons WITH Programs <- ComparedPrograms, program <- compared, heap <- graph
NoEqual == compared = 0 /\ graph = 0 /\ edits = 0

VARIABLES label, digits
labelVars == <<label, digits>>
Labels == INSTANCE Punycode WITH Characters <- {45, 97, 127, 128, 8364, 128512, 1114111},
                                 Digits <- {45, 97, 107, 122, 48, 57}, MaxLength <- 4
NoLabels == label = <<>> /\ digits = <<>>

VARIABLE duplex
K(how, outs, ok) == [how |-> how, outs |-> outs, ok |-> ok]
Duplex == INSTANCE Transform WITH t <- duplex, MaxChunks <- 2, MaxTicks <- 4, HighWaterMark <- 1,
    Kinds <- { K("now", 0, TRUE), K("now", 2, TRUE), K("later", 2, TRUE), K("then", 1, TRUE),
               K("later", 1, FALSE), K("then", 0, FALSE) },
    Flushes <- { K("none", 0, TRUE), K("now", 1, TRUE), K("then", 1, TRUE), K("then", 0, FALSE) }
NoDuplex == duplex = 0

VARIABLES argv, runners, crossed
runnerVars == <<argv, runners, crossed>>
Package == INSTANCE Runner WITH MaxRuns <- 3, MaxExecs <- 2, runs <- runners
NoPackage == argv = 0 /\ runners = 0 /\ crossed = 0

VARIABLES host, chain
launcherVars == <<host, chain>>
Nodes == { [version |-> <<14, 21, 3>>, wasi |-> "flag"], [version |-> <<18, 11, 18>>, wasi |-> "flag"],
           [version |-> <<18, 11, 18>>, wasi |-> "never"], [version |-> <<20, 0, 0>>, wasi |-> "always"] }
Program == INSTANCE Launcher WITH Hosts <- Nodes, MaxProcesses <- 4
NoProgram == host = 0 /\ chain = 0

-----------------------------------------------------------------------------

Components == {"require", "files", "tree", "pages", "streams", "emitter", "paths", "codecs",
               "urls", "buffers", "equal", "labels", "duplex", "package", "program"}
LibraryInit ==
    /\ focus \in Components
    /\ IF focus = "require" THEN Init ELSE requires = {} /\ Init
    /\ IF focus = "files" THEN Files!FilesInit ELSE NoFiles
    /\ IF focus = "tree" THEN Tree!TreeInit ELSE NoTree
    /\ IF focus = "pages" THEN Pages!DirectoryInit ELSE NoPages
    /\ IF focus = "streams" THEN Streams!StreamsInit ELSE NoStreams
    /\ IF focus = "emitter" THEN Emitter!EventsInit ELSE NoEmitter
    /\ IF focus = "paths" THEN Paths!PathInit ELSE NoPaths
    /\ IF focus = "codecs" THEN Text8!CodecsInit ELSE NoText8
    /\ IF focus = "urls" THEN Urls!UrlInit ELSE NoUrls
    /\ IF focus = "buffers" THEN Buffers!BuffersInit ELSE NoBuffers
    /\ IF focus = "equal" THEN Equal!ComparisonsInit ELSE NoEqual
    /\ IF focus = "labels" THEN Labels!PunycodeInit ELSE NoLabels
    /\ IF focus = "duplex" THEN Duplex!TransformInit ELSE NoDuplex
    /\ IF focus = "package" THEN Package!RunnerInit ELSE NoPackage
    /\ IF focus = "program" THEN Program!LauncherInit ELSE NoProgram

Others ==
    /\ UNCHANGED focus
    /\ focus # "require" => UNCHANGED vars
    /\ focus # "files" => UNCHANGED filesVars
    /\ focus # "tree" => UNCHANGED treeVars
    /\ focus # "pages" => UNCHANGED pagesVars
    /\ focus # "streams" => UNCHANGED streamsVars
    /\ focus # "emitter" => UNCHANGED emitterVars
    /\ focus # "paths" => UNCHANGED pathVars
    /\ focus # "codecs" => UNCHANGED codecVars
    /\ focus # "urls" => UNCHANGED urlVars
    /\ focus # "buffers" => UNCHANGED bufferVars
    /\ focus # "equal" => UNCHANGED graphVars
    /\ focus # "labels" => UNCHANGED labelVars
    /\ focus # "duplex" => UNCHANGED duplex
    /\ focus # "package" => UNCHANGED runnerVars
    /\ focus # "program" => UNCHANGED launcherVars

LibraryNext ==
    \/ focus = "require" /\ Next /\ Others
    \/ focus = "files" /\ Files!FilesNext /\ Others
    \/ focus = "tree" /\ Tree!TreeNext /\ Others
    \/ focus = "pages" /\ Pages!DirectoryNext /\ Others
    \/ focus = "streams" /\ Streams!StreamsNext /\ Others
    \/ focus = "emitter" /\ Emitter!EventsNext /\ Others
    \/ focus = "paths" /\ Paths!PathNext /\ Others
    \/ focus = "codecs" /\ Text8!CodecsNext /\ Others
    \/ focus = "urls" /\ Urls!UrlNext /\ Others
    \/ focus = "buffers" /\ Buffers!BuffersNext /\ Others
    \/ focus = "equal" /\ Equal!ComparisonsNext /\ Others
    \/ focus = "labels" /\ Labels!PunycodeNext /\ Others
    \/ focus = "duplex" /\ Duplex!TransformNext /\ Others
    \/ focus = "package" /\ Package!RunnerNext /\ Others
    \/ focus = "program" /\ Program!LauncherNext /\ Others

-----------------------------------------------------------------------------

\* The types of every component but CommonJS.
ComponentTypes ==
    /\ focus = "files" => Files!FilesTypeOK
    /\ focus = "tree" => Tree!TreeTypeOK
    /\ focus = "pages" => Pages!DirectoryTypeOK
    /\ focus = "streams" => Streams!StreamsTypeOK
    /\ focus = "emitter" => Emitter!EventsTypeOK
    /\ focus = "codecs" => Text8!CodecsTypeOK
    /\ focus = "urls" => Urls!UrlTypeOK
    /\ focus = "buffers" => Buffers!BuffersTypeOK
    /\ focus = "duplex" => Duplex!TransformTypeOK

\* fs.js: nobody meets another's descriptor or leaves one open, every
\* callback and promise is answered once, but for the overlaps and leaks
\* that are named in Files; and a directory read page by page is listed in
\* order, each entry once.
FilesKept ==
    /\ focus = "files" => Files!DescriptorsKept /\ Files!AnsweredOnce
    /\ focus = "pages" => Pages!ListedOnce

\* cp.js: a copy that others do not disturb does what cpSync does, changes
\* nothing outside the destination, and overwrites nothing it must not.
TreeKept == focus = "tree" => Tree!TreeKept

\* fs/stream.js: what a file stream pushes, writes, answers and closes.
FileStreamsKept == focus = "streams" => Streams!FileStreamsKept

\* events.js: the listeners called are those registered, and a once
\* listener runs once, also when listeners call the emitter.
EmitterKept == focus = "emitter" => Emitter!EmitterKept

\* path.js: relative leads from one path to the other, and the functions
\* that take a path apart lose nothing.  string_decoder.js, buffer.js: a text
\* does not depend on how its bytes were cut, and what is encoded can be
\* decoded.
TextsKept ==
    /\ focus = "paths" => Paths!PathsKept
    /\ focus = "codecs" => Text8!DecodersAgree

\* whatwg_url.js: a URL's text leads back to the URL, whatever setters did,
\* and the search parameters are those of its query.  punycode.js: a label
\* comes back, and no two are encoded alike.
UrlsKept ==
    /\ focus = "urls" => Urls!UrlKept
    /\ focus = "labels" => Labels!PunycodeKept

\* buffer.js: what a Buffer's methods write, move and find, when several
\* Buffers share memory.
BuffersKept == focus = "buffers" => Buffers!BuffersKept

\* internal/util/comparisons.js: what is called equal cannot be told apart.
ComparisonsKept == focus = "equal" => Equal!ComparisonsKept

\* transform.js: what comes out is what went in, in order and all of it, a
\* writer waits only for a reader, and the two halves end in order.
TransformKept == focus = "duplex" => Duplex!TransformKept

\* npm: process.argv is the host's again when all runs are over, and the
\* program restarts once and tells success only of the command.
PackageKept ==
    /\ focus = "package" => Package!ArgvComesBack
    /\ focus = "program" => Program!LauncherKept
=============================================================================
