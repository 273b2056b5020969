------------------------- MODULE MCCapturePipeline -------------------------
EXTENDS CapturePipeline

MCLimit == <<4, 4>>

\* Beyond the source on both sides.
MCCursorAt == <<-1, 9>>

\* Scaled alike on the GPU and the CPU, and not: <<6, 5>> becomes <<4, 2>> or <<4, 3>>.
MCSources == {<<8, 4>>, <<6, 5>>}

Able == [device |-> TRUE, gbm |-> TRUE, egl |-> TRUE, scale |-> TRUE]

MCDesktops ==
    {[backend |-> "portal", source |-> <<8, 4>>, kind |-> "mapped", driver |-> Able],
     [backend |-> "mutter", source |-> <<8, 4>>, kind |-> "dmabuf", driver |-> Able],
     [backend |-> "mutter", source |-> <<6, 5>>, kind |-> "dmabuf",
      driver |-> [Able EXCEPT !.gbm = FALSE]]}
=============================================================================
