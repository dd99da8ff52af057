------------------------------ MODULE MCSources ------------------------------
(* Small trees, sources and flags for the inventory.                       *)
EXTENDS Sources

Dir == [kind |-> "dir", target |-> <<>>, dev |-> 1]
File == [kind |-> "file", target |-> <<>>, dev |-> 1]
Link(p) == [kind |-> "link", target |-> p, dev |-> 1]
Mounted(node) == [node EXCEPT !.dev = 2]

a == <<"a">>
as == <<"a", "s">>
b == <<"b">>
l == <<"l">>
Base == (<<>> :> Dir) @@ (a :> Dir) @@ (<<"a", "f">> :> File) @@ (as :> Dir)
          @@ (<<"a", "s", "g">> :> File) @@ (b :> Dir) @@ (<<"b", "h">> :> File)
\* Links into the other directory, round, to nowhere, and one beside them.
Linked == Base @@ (<<"a", "l">> :> Link(b)) @@ (<<"b", "r">> :> Link(a)) @@ (l :> Link(as))
Round == (<<>> :> Dir) @@ (a :> Dir) @@ (<<"a", "u">> :> Link(a)) @@ (<<"a", "w">> :> Link(<<"z">>))
           @@ (<<"a", "x">> :> Link(b)) @@ (b :> Dir) @@ (<<"b", "h">> :> File)
Mounts == (<<>> :> Dir) @@ (b :> Dir) @@ (<<"b", "m">> :> Mounted(Dir))
            @@ (<<"b", "m", "k">> :> Mounted(File)) @@ (<<"b", "t">> :> Link(<<"b", "m">>))
Named == (<<>> :> Dir) @@ (a :> Dir) @@ (<<"a", "N">> :> Dir) @@ (<<"a", "N", "i">> :> File)
           @@ (<<"a", "t">> :> Link(<<"N">>))

W(t, inputs, lists, opts) ==
    [tree |-> t, unreadable |-> {}, leaving |-> {}, inputs |-> inputs, lists |-> lists, opts |-> opts]
Locked(w, dirs) == [w EXCEPT !.unreadable = dirs]
Leaving(w, names) == [w EXCEPT !.leaving = names]
OnDisk(buf) == [stdin |-> FALSE, buf |-> buf]
Stdin(buf) == [stdin |-> TRUE, buf |-> buf]
nested == OnDisk(<<<<"a", "s">>, "sep", "sep", <<"a", "f">>, "cr", "sep">>)

MCWorlds ==
    {W(Linked, <<a, b>>, <<>>, o) : o \in SUBSET {"dereference"}}
      \cup {Leaving(W(Linked, <<l>>, <<OnDisk(<<b>>)>>, o), {l, <<"a", "s", "g">>, <<"b", "r">>}) :
              o \in SUBSET {"dereference", "noStrictSeparation"}}
      \cup {Leaving(W(Base, <<a, as>>, <<>>, o), {<<"a", "s", "g">>}) : o \in SUBSET {"noRecursion", "noStrictSeparation"}}
      \cup {W(Base, <<as>>, <<OnDisk(<<a, "sep", as>>)>>, o) :
              o \in SUBSET {"noRecursion", "noStrictSeparation"}}
      \cup {W(Base, <<>>, <<nested, Stdin(<<b, "sep", b, "cr">>)>>, o) :
              o \in SUBSET {"noStrictSeparation", "null"}}
      \cup {Locked(W(Round, <<a>>, <<OnDisk(<<l, "sep", <<"a", "w">>>>)>>, o), {b}) :
              o \in SUBSET {"dereference", "failFast"}}
      \cup {W(Linked, <<l>>, <<>>, {}), W(Base, <<l>>, <<>>, {}),
            W(Base, <<>>, <<OnDisk(<<<<"a", "f">>, "sep", a, "sep", <<"a", "f">>>>)>>, {})}
      \cup {W(Linked, <<a>>, <<OnDisk(<<<<"a", "l", "h">>, "sep", <<"l", "g">>>>)>>, {})}
      \cup {W(Mounts, <<b>>, <<>>, {"oneFileSystem"} \cup o) : o \in SUBSET {"dereference"}}
      \cup {Locked(W(Named, <<a>>, <<>>, {}), {<<"a", "N">>})}
      \cup {W(Named, <<a>>, <<OnDisk(<<<<"N">>, "sep", <<"a", "N">>>>)>>, o) :
              o \in SUBSET {"relaxUtf8", "failFast"}}
=============================================================================
