----------------------------- MODULE MCArchive ------------------------------
(* An instance of Archive for TLC: small datadirs with everything the walk *)
(* tells apart.                                                            *)
EXTENDS Archive

Chain == <<"chaindata", "ancient", "chain">>
State == <<"chaindata", "ancient", "state">>
Old   == <<"chaindata", "ancient-old">>    \* a name with ancient's as a prefix
Rogue == <<"chaindata", "ancient", "x">>

AllPaths ==
  << Chaindata, <<"chaindata", "CURRENT">>, Ancient,
     Chain, <<"chaindata", "ancient", "chain", "0">>,
     State, <<"chaindata", "ancient", "state", "0">>, Rogue,
     Old, <<"nodekey">>, <<"triedb">>, <<"triedb", "journal">> >>

Chosen(bundles) == {{}} \cup bundles

(* A node of each kind at the leaf that has ancient's name as a prefix; a  *)
(* freezer directory that is there or missing, a link, or behind one; a    *)
(* file in its place.                                                      *)
Datadirlike ==
  UNION {
    LET ps == {Chaindata, <<"chaindata", "CURRENT">>, Ancient, <<"nodekey">>}
                \cup c \cup s \cup t \cup x IN
    { [p \in ps |->
         CASE p = Ancient -> a
           [] p = Old     -> o
           [] p = Chain   -> l
           [] p \in {Chaindata, State, <<"triedb">>} -> Dir
           [] OTHER       -> File(1)]
      : a \in {Dir, Symlink, File(1)}, l \in {Dir, Symlink},
        o \in {File(1), Symlink, AbsLink, Fifo} }
    : c \in Chosen({{Chain, <<"chaindata", "ancient", "chain", "0">>}}),
      s \in Chosen({{State, <<"chaindata", "ancient", "state", "0">>}}),
      t \in Chosen({{<<"triedb">>, <<"triedb", "journal">>}}),
      x \in Chosen({{Old}, {Rogue}}) }

Bare == [p \in {Chaindata} |-> Dir]    \* nothing in it, nor in a flat tarball

SmallDatadirs == {t \in Datadirlike \cup {Bare} : IsTree(t)}

=============================================================================
