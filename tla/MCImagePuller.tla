---------------------------- MODULE MCImagePuller ----------------------------
(* Instance for TLC: two kernelspecs share an image, the config map repeats one
   or has null items around one. *)
EXTENDS ImagePuller

CONSTANTS i1, i2

MCSpecs == {[image |-> i1, executor |-> NoImage], [image |-> i1, executor |-> i2]}
MCConfigLists == {<<i1, i1>>, <<NoImage, i2, NoImage>>}
=============================================================================
