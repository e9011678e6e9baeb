SPECIFICATION Spec
INVARIANTS
  BufferOutlivesDecoder
