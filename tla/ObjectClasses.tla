------------------------------ MODULE ObjectClasses -----------------------------
(***************************************************************************)
(* The classes of src/render/vulkan/ that GpuObject runs: what their       *)
(* init() and copy() create, and when they set initialised_.  The fields   *)
(* are those of GpuObject!Class.                                           *)
(***************************************************************************)
Owner(first, makes) ==
  [first |-> first, tail |-> FALSE, temps |-> {}, makes |-> makes, copies |-> <<>>]

Sampler        == Owner(TRUE, <<"handle">>)
DescriptorPool == Owner(TRUE, <<"handle">>)
Framebuffer    == Owner(FALSE, <<"handle">>)
RenderPass     == Owner(FALSE, <<"handle">>)
Device         == Owner(FALSE, <<"handle">>)
Instance       == Owner(FALSE, <<"handle">>)

\* copy() of a buffer that is staged; super_buffer_impl_t does the same.
Buffer ==
  [Owner(TRUE, <<"handle", "memory">>) EXCEPT
     !.tail = TRUE, !.copies = <<"staging", "staging_memory", "commands">>]

\* copy() makes its staging buffer with the class above, whose own temporaries
\* are not told from it.
Image ==
  [Owner(TRUE, <<"handle", "memory", "view">>) EXCEPT
     !.copies = <<"staging", "staging_memory", "commands">>]

\* init_graphics creates the layout twice.  One shader module stands for all.
GraphicsPipeline ==
  [Owner(FALSE, <<"layout", "layout", "module", "handle">>) EXCEPT !.temps = {"module"}]

ComputePipeline ==
  [Owner(FALSE, <<"layout", "module", "handle">>) EXCEPT !.temps = {"module"}]

===============================================================================
