------------------------------ MODULE MCVolumes ------------------------------
(***************************************************************************)
(* A machine for TLC: two partitions of one disk, a clone of the first, and *)
(* two sticks whose MountedDevices data is a device path.  Device paths    *)
(* begin alike, so their first twelve bytes are the same.                  *)
(***************************************************************************)
EXTENDS Volumes

Mbr(sig, offset) == [len |-> 12, sig |-> sig, offset |-> offset, rest |-> "none"]
DevicePath(rest) == [len |-> 100, sig |-> 9, offset |-> 9, rest |-> rest]

MCDisks == {"first", "second", "clone", "stick", "other"}

MCIdOf == [first |-> Mbr(1, 1), second |-> Mbr(1, 2), clone |-> Mbr(1, 1),
           stick |-> DevicePath("stick"), other |-> DevicePath("other")]

MCLabelOf == [first |-> <<"a">>, second |-> <<"b", "_", "7">>, clone |-> <<>>,
              stick |-> <<"_", "c">>, other |-> <<"a", "_", "_", "d">>]

MCPrefixOf == [first |-> <<"p", "_">>, second |-> <<"p", "_", "_", "q">>, clone |-> <<"p">>,
               stick |-> <<"p", "_">>, other |-> <<"p">>]

MCSerialOf == [first |-> "11", second |-> "12", clone |-> "11", stick |-> "13",
               other |-> "14"]

MCStrayMounts ==
    <<[name |-> Name("other", "#{id}", "mixed"), raw |-> Mbr(1, 1)],
      [name |-> Name("dos", "Z", "upper"),
       raw |-> [len |-> 8, sig |-> 1, offset |-> 1, rest |-> "none"]]>>

MCStrayUser == <<[name |-> Name("share", "##server#share", "lower"), last_written |-> 0]>>

MCStrayLabels ==
    <<[name |-> Name("other", "index", "lower"), label |-> <<"a">>],
      [name |-> Name("letter", "Z", "upper"), label |-> None]>>

MCStrayEmd == <<<<"p">>, <<"p", "_", "_", "a">>>>

Alike == Permutations(Letters)
=============================================================================
